---- MODULE Spec2Model ----
(***************************************************************************)
(* Framework Assistant: the chat loop of app.py (main, process_query,      *)
(* render_sidebar) over the session state, and the retried provider calls  *)
(* of utils/llm.py (LLMClient.generate_response,                           *)
(* generate_response_with_history, embed_text).                            *)
(*                                                                         *)
(* utils/session.py, utils/intent.py, utils/search.py, utils/embedder.py   *)
(* and handlers/diagnostic.py are not among the sources; what the chat     *)
(* loop needs of them is modelled from spec.md (sections 4.5, 4.7, 7).     *)
(***************************************************************************)
EXTENDS Integers, Sequences, FiniteSets, TLC

\* ------------------------------------------------------------------ bounds
NumFrameworks == 2
MaxQueries == 4
MaxRetriesBound == 4

\* ------------------------------------------------------- program constants
DefaultMaxRetries == 3
BaseDelay == 1

\* ------------------------------------------------------------------ values
None == 0
Frameworks == 1..NumFrameworks

INTENT_DIAGNOSTIC == "DIAGNOSTIC"
INTENT_DISCOVERY == "DISCOVERY"
INTENT_DETAILS == "DETAILS"
INTENT_SEQUENCING == "SEQUENCING"
INTENT_COMPARISON == "COMPARISON"
INTENT_UNKNOWN == "UNKNOWN"
Intents ==
  {INTENT_DIAGNOSTIC, INTENT_DISCOVERY, INTENT_DETAILS, INTENT_SEQUENCING,
   INTENT_COMPARISON, INTENT_UNKNOWN}

\* The intents whose handlers need a named target.
NamedIntents == {INTENT_DETAILS, INTENT_SEQUENCING, INTENT_COMPARISON}

Stages == {"idle", "framework_selection", "diagnostic_active", "diagnostic_analyzed"}

\* Provider errors one attempt can end with.
Errors == {"RateLimitError", "APITimeoutError"}
\* What Python raises for `raise None`.
TypeError == "TypeError"

CallKinds == {"generate_response", "generate_response_with_history", "embed_text"}

\* A user text, as far as selection resolution reads it: num > 0 when the text
\* is the bare integer num (up to one past the longest list that can be
\* offered); name is the catalog framework whose name the text matches
\* (case-insensitively, as a whole or as a substring), or None; any other
\* text, such as a sentence, has num = 0 and name = None.
MaxNum == NumFrameworks + 1
QuerySet ==
  {[num |-> n, name |-> None] : n \in 1..MaxNum}
    \cup {[num |-> 0, name |-> f] : f \in Frameworks \cup {None}}

\* Ordered lists of distinct frameworks: what a search can return.
RECURSIVE Lists(_)
Lists(n) ==
  IF n = 0 THEN {<<>>}
  ELSE LET shorter == Lists(n - 1)
       IN  shorter \cup
           {Append(s, f) : s \in {t \in shorter : Len(t) = n - 1},
                           f \in Frameworks}

Range(s) == {s[i] : i \in 1..Len(s)}
ResultLists == {s \in Lists(NumFrameworks) : Cardinality(Range(s)) = Len(s)}

\* Names the Name Extractor reports, each resolved by get_framework_by_name:
\* a framework, or None when the exact lookup finds nothing.
MentionLists == {<<>>} \cup {<<a>> : a \in Frameworks \cup {None}}
                  \cup {<<a, b>> : a \in Frameworks, b \in Frameworks \cup {None}}

VARIABLES
  history,               \* session: conversation turns, in order
  current_stage,         \* session: stage of the diagnostic flow
  selected_framework,    \* session: the selected framework, or None
  available_frameworks,  \* st.session_state.available_frameworks
  show_frameworks,       \* st.session_state.show_frameworks
  pc,                    \* where the script run of main() is
  user_query,            \* main: the text accepted by chat_input
  intent,                \* process_query: the classified intent, or "none"
  response,              \* process_query: the response text (its kind)
  frameworks,            \* process_query: the frameworks to display
  call,                  \* the retried provider call in progress
  ops,                   \* routing steps this request has performed
  pre,                   \* session state when the request was accepted
  outcome,               \* how the last script run ended
  nqueries,              \* queries accepted so far
  feedback_log,          \* the feedback file: its state and its records
  feedback,              \* per session: framework id -> rating, or None
  fb_pc,                 \* per session: where its log_feedback call is
  fb_local,              \* per session: locals of its log_feedback call
  fb_last,               \* the last press of a rating button
  fb_clock,              \* datetime.now(): presses so far
  fn_args,               \* a function called on its own: its arguments
  fn_result              \* ... and what it returned, or NotCalled

vars ==
  <<history, current_stage, selected_framework, available_frameworks,
    show_frameworks, pc, user_query, intent, response, frameworks,
    call, ops, pre, outcome, nqueries,
    feedback_log, feedback, fb_pc, fb_local, fb_last, fb_clock,
    fn_args, fn_result>>

fnVars == <<fn_args, fn_result>>
fbVars == <<feedback_log, feedback, fb_pc, fb_local, fb_last, fb_clock>>
\* What the chat loop and the retried call leave alone.
otherVars == <<fbVars, fnVars>>
chatVars ==
  <<history, current_stage, selected_framework, available_frameworks,
    show_frameworks, pc, user_query, intent, response, frameworks,
    call, ops, pre, outcome, nqueries>>

sessionVars == <<history, current_stage, selected_framework>>
appVars == <<available_frameworks, show_frameworks>>
reqVars == <<user_query, intent, response, frameworks, ops, pre>>

\* ------------------------------------------------- retried provider calls
NoException == "None"

NoCall ==
  [kind |-> "none", max_retries |-> 0, attempt |-> 0,
   last_exception |-> NoException, log |-> <<>>, delays |-> <<>>,
   status |-> "idle", raised |-> NoException]

\* Entry of a retried call: last_exception = None, the loop not yet started.
NewCall(kind, max_retries) ==
  [kind |-> kind, max_retries |-> max_retries, attempt |-> 0,
   last_exception |-> NoException, log |-> <<>>, delays |-> <<>>,
   status |-> "running", raised |-> NoException]

\* Off by one: range(max_retries + 1).
LoopContinues_OffByOne(c) == c.attempt <= c.max_retries

\* for attempt in range(max_retries): the loop has another iteration.
LoopContinues(c) == c.attempt < c.max_retries

\* Linear instead of exponential backoff.
Delay_Linear(attempt) == BaseDelay * (attempt + 1)

\* delay = 1.0 * (2 ** attempt)
Delay(attempt) == BaseDelay * (2 ^ attempt)

\* The try block completes: the call returns at once.
AfterSuccess(c) ==
  [c EXCEPT !.log = Append(@, "ok"), !.status = "returned"]

\* The except block for error e: remember it, sleep unless this was the last
\* iteration, go on to the next iteration.
AfterFailure(c, e) ==
  [c EXCEPT !.last_exception = e,
            !.log = Append(@, e),
            !.delays = IF c.attempt < c.max_retries - 1
                         THEN Append(@, Delay(c.attempt)) ELSE @,
            !.attempt = @ + 1]

\* raise last_exception: `raise None` is a TypeError.
Raised(c) ==
  IF c.last_exception = NoException THEN TypeError ELSE c.last_exception

AfterLoop(c) ==
  [c EXCEPT !.status = "raised", !.raised = Raised(c)]

\* What the provider does to each attempt in turn: "ok" or an error.
Fates(n) == [1..n -> {"ok"} \cup Errors]

\* The whole retried call, from entry c, against the fate of its attempts:
\* the call as it ends, returned or raised.
RECURSIVE RunCall(_, _)
RunCall(c, fate) ==
  IF ~LoopContinues(c) THEN AfterLoop(c)
  ELSE IF fate[c.attempt + 1] = "ok" THEN AfterSuccess(c)
  ELSE RunCall(AfterFailure(c, fate[c.attempt + 1]), fate)

\* ------------------------------------------------------------- feedback
\* bounds
NumSessions == 2
MaxClicks == 3

Sessions == 1..NumSessions
Ratings == {1, -1}

\* The feedback file: absent, holding a JSON list of records, or holding
\* something json.loads rejects.
AbsentLog == [state |-> "absent", records |-> <<>>]
ValidLog(records) == [state |-> "valid", records |-> records]
CorruptLog == [state |-> "corrupt", records |-> <<>>]

NoFeedbackCall == [fb |-> <<>>, before |-> AbsentLog, existing |-> <<>>, result |-> "none"]
NoPress == [session |-> 0, framework_id |-> 0, rating |-> 0, ignored |-> FALSE]

\* session.get_last_query()
get_last_query(s) == <<"last_query", s>>

\* session.get_feedback_for_framework(framework_id)
get_feedback_for_framework(s, f) == feedback[s][f]

\* session.add_feedback(framework_id, rating, query): a rating once set stays.
add_feedback(fbs, f, r) == IF fbs[f] = None THEN [fbs EXCEPT ![f] = r] ELSE fbs

\* State of the feedback part before any press.
FeedbackIdle ==
  /\ feedback_log = AbsentLog
  /\ feedback = [s \in Sessions |-> [f \in Frameworks |-> None]]
  /\ fb_pc = [s \in Sessions |-> "idle"]
  /\ fb_local = [s \in Sessions |-> NoFeedbackCall]
  /\ fb_last = NoPress
  /\ fb_clock = 0

\* ----------------------------------------------------- selection, routing
\* The offered framework whose name the text matches, or None.
NameMatch(avail, name) ==
  IF \E i \in 1..Len(avail) : avail[i] = name THEN name ELSE None

\* An integer past the end of the list taken as its last entry.
handle_framework_selection_Clamped(q, avail) ==
  IF q.num > 0
    THEN IF q.num <= Len(avail) THEN avail[q.num] ELSE avail[Len(avail)]
    ELSE NameMatch(avail, q.name)

\* handle_framework_selection: the framework the text selects among the
\* offered ones, or None.
handle_framework_selection(q, avail) ==
  IF q.num > 0
    THEN IF q.num <= Len(avail) THEN avail[q.num] ELSE None
    ELSE NameMatch(avail, q.name)

\* The selection attempt of process_query: made only in framework_selection
\* with a non-empty offered list.
TrySelection(stage, avail, q) ==
  IF stage = "framework_selection" /\ avail # <<>>
    THEN handle_framework_selection(q, avail)
    ELSE None

\* The selection attempt left out: every input goes on to the later checks.
route_SkipSelection(stage, avail, selected, q) ==
  IF stage = "diagnostic_active" /\ selected # None
    THEN "answers"
  ELSE "normal"

\* `if selected:` left out: in framework_selection whatever the selection
\* attempt gives is returned.
route_NoSelectedCheck(stage, avail, selected, q) ==
  IF stage = "framework_selection" /\ avail # <<>>
    THEN "selection"
  ELSE IF stage = "diagnostic_active" /\ selected # None
    THEN "answers"
  ELSE "normal"

\* The diagnostic_active check left out.
route_SkipAnswers(stage, avail, selected, q) ==
  IF stage = "framework_selection" /\ avail # <<>>
       /\ handle_framework_selection(q, avail) # None
    THEN "selection"
  ELSE "normal"

\* Answers taken whenever a framework is selected and no selection is
\* pending, also after the analysis.
route_StickyAnswers(stage, avail, selected, q) ==
  IF stage = "framework_selection" /\ avail # <<>>
       /\ handle_framework_selection(q, avail) # None
    THEN "selection"
  ELSE IF stage # "framework_selection" /\ stage # "idle" /\ selected # None
    THEN "answers"
  ELSE "normal"

\* The head of process_query: which of its three paths the input takes.
route(stage, avail, selected, q) ==
  IF stage = "framework_selection" /\ avail # <<>>
       /\ handle_framework_selection(q, avail) # None
    THEN "selection"
  ELSE IF stage = "diagnostic_active" /\ selected # None
    THEN "answers"
  ELSE "normal"

\* [result.framework_data] if result else []
Found(f) == IF f # None THEN <<f>> ELSE <<>>

\* The top search result taken before the extracted name.
NamedTarget_SearchFirst(name, results, mentioned) ==
  IF results # <<>>
    THEN [handler |-> name, frameworks |-> <<results[1]>>,
          llm |-> TRUE, offers |-> FALSE]
  ELSE IF mentioned # <<>>
    THEN [handler |-> name, frameworks |-> Found(mentioned[1]),
          llm |-> TRUE, offers |-> FALSE]
  ELSE [handler |-> "clarify", frameworks |-> <<>>,
        llm |-> FALSE, offers |-> FALSE]

NamedTarget(name, results, mentioned) ==
  IF mentioned # <<>>
    THEN [handler |-> name, frameworks |-> Found(mentioned[1]),
          llm |-> TRUE, offers |-> FALSE]
  ELSE IF results # <<>>
    THEN [handler |-> name, frameworks |-> <<results[1]>>,
          llm |-> TRUE, offers |-> FALSE]
  ELSE [handler |-> "clarify", frameworks |-> <<>>,
        llm |-> FALSE, offers |-> FALSE]

\* The else branch without its `available_frameworks = frameworks`.
dispatch_UnknownNotOffered(i, results, mentioned) ==
  IF i = INTENT_DIAGNOSTIC
    THEN [handler |-> "diagnostic", frameworks |-> results,
          llm |-> TRUE, offers |-> TRUE]
  ELSE IF i = INTENT_DISCOVERY
    THEN [handler |-> "discovery", frameworks |-> results,
          llm |-> TRUE, offers |-> FALSE]
  ELSE IF i \in {INTENT_DETAILS, INTENT_SEQUENCING}
    THEN NamedTarget(IF i = INTENT_DETAILS THEN "details" ELSE "sequencing",
                     results, mentioned)
  ELSE IF i = INTENT_COMPARISON
    THEN IF Len(mentioned) >= 2
           THEN [handler |-> "comparison",
                 frameworks |-> Found(mentioned[1]) \o Found(mentioned[2]),
                 llm |-> TRUE, offers |-> FALSE]
         ELSE IF Len(mentioned) = 1 /\ results # <<>>
           THEN [handler |-> "comparison", frameworks |-> <<results[1]>>,
                 llm |-> TRUE, offers |-> FALSE]
         ELSE [handler |-> "clarify", frameworks |-> <<>>,
               llm |-> FALSE, offers |-> FALSE]
  ELSE [handler |-> "diagnostic", frameworks |-> results,
        llm |-> TRUE, offers |-> FALSE]

\* The COMPARISON branch without its one-name fallback.
dispatch_ComparisonNeedsTwoNames(i, results, mentioned) ==
  IF i = INTENT_DIAGNOSTIC
    THEN [handler |-> "diagnostic", frameworks |-> results,
          llm |-> TRUE, offers |-> TRUE]
  ELSE IF i = INTENT_DISCOVERY
    THEN [handler |-> "discovery", frameworks |-> results,
          llm |-> TRUE, offers |-> FALSE]
  ELSE IF i = INTENT_DETAILS
    THEN NamedTarget("details", results, mentioned)
  ELSE IF i = INTENT_SEQUENCING
    THEN NamedTarget("sequencing", results, mentioned)
  ELSE IF i = INTENT_COMPARISON
    THEN IF Len(mentioned) >= 2
           THEN [handler |-> "comparison",
                 frameworks |-> Found(mentioned[1]) \o Found(mentioned[2]),
                 llm |-> TRUE, offers |-> FALSE]
         ELSE [handler |-> "clarify", frameworks |-> <<>>,
               llm |-> FALSE, offers |-> FALSE]
  ELSE [handler |-> "diagnostic", frameworks |-> results,
        llm |-> TRUE, offers |-> TRUE]

\* The if/elif chain of process_query on the intent: the handler, the list it
\* returns, whether it calls the Narrative Generator and whether
\* available_frameworks is set from its list.
dispatch(i, results, mentioned) ==
  IF i = INTENT_DIAGNOSTIC
    THEN [handler |-> "diagnostic", frameworks |-> results,
          llm |-> TRUE, offers |-> TRUE]
  ELSE IF i = INTENT_DISCOVERY
    THEN [handler |-> "discovery", frameworks |-> results,
          llm |-> TRUE, offers |-> FALSE]
  ELSE IF i = INTENT_DETAILS
    THEN NamedTarget("details", results, mentioned)
  ELSE IF i = INTENT_SEQUENCING
    THEN NamedTarget("sequencing", results, mentioned)
  ELSE IF i = INTENT_COMPARISON
    THEN IF Len(mentioned) >= 2
           THEN [handler |-> "comparison",
                 frameworks |-> Found(mentioned[1]) \o Found(mentioned[2]),
                 llm |-> TRUE, offers |-> FALSE]
         ELSE IF Len(mentioned) = 1 /\ results # <<>>
           THEN [handler |-> "comparison", frameworks |-> <<results[1]>>,
                 llm |-> TRUE, offers |-> FALSE]
         ELSE [handler |-> "clarify", frameworks |-> <<>>,
               llm |-> FALSE, offers |-> FALSE]
  ELSE [handler |-> "diagnostic", frameworks |-> results,
        llm |-> TRUE, offers |-> TRUE]

\* The stage a handler leaves once its response is produced:
\* handle_diagnostic offers a list, handle_diagnostic_analysis ends the pass.
StageAfterHandler(h, stage) ==
  IF h = "diagnostic" THEN "framework_selection"
  ELSE IF h = "analysis" THEN "diagnostic_analyzed"
  ELSE stage

\* SessionManager.clear_session
ClearedSession ==
  [history |-> <<>>, current_stage |-> "idle", selected_framework |-> None]

\* The session as a request finds it, and the offered framework its text q
\* selects there (None when it selects none).
Snapshot(q) ==
  [stage |-> current_stage, selected |-> selected_framework,
   available |-> available_frameworks,
   chosen |-> TrySelection(current_stage, available_frameworks, q)]

NoQuery == [num |-> 0, name |-> None]

\* How a retried call of the chat loop (max_retries at its default) can end,
\* over every fate of its attempts.
CallEndings(kind) ==
  {RunCall(NewCall(kind, DefaultMaxRetries), fate).status :
     fate \in Fates(DefaultMaxRetries)}

EmbedEndings == CallEndings("embed_text")
GenerateEndings == CallEndings("generate_response")

\* ------------------------------------------------- the diagnostic analysis
\* The stored fields of a catalog framework that the analysis reads. A field
\* is the text of that field of that framework (here its tag and the
\* framework), or Missing when the record has no such key;
\* diagnostic_questions is pipe-separated, here the list of its pieces, some
\* of them blank.
Missing == <<"missing">>
BlankPiece == <<"blank">>
FieldText(f, field) == <<field, f>>

framework_data(f) ==
  [id |-> f,
   name |-> FieldText(f, "name"),
   diagnostic_questions |->
     IF f = 1 THEN <<FieldText(f, "question 1"), BlankPiece,
                     FieldText(f, "question 2")>>
     ELSE IF f = 2 THEN <<>>
     ELSE <<FieldText(f, "question 1")>>,
   red_flag_indicators |-> FieldText(f, "red_flag_indicators"),
   levers |-> IF f = 2 THEN Missing ELSE FieldText(f, "levers"),
   related_frameworks |->
     IF f = 1 THEN Missing ELSE FieldText(f, "related_frameworks")]

\* framework.get(key, default)
Get(value, default) == IF value = Missing THEN default ELSE value

\* "\n".join(f"  - {q.strip()}" for q in questions if q.strip())
RECURSIVE FormatQuestions(_)
FormatQuestions(questions) ==
  IF questions = <<>> THEN <<>>
  ELSE IF Head(questions) = BlankPiece THEN FormatQuestions(Tail(questions))
  ELSE <<<<"  - ", Head(questions)>>>> \o FormatQuestions(Tail(questions))

\* build_diagnostic_analysis_prompt: the slots of the analysis template.
build_diagnostic_analysis_prompt(framework, user_answers) ==
  [framework_name |-> Get(framework.name, <<"Unknown">>),
   diagnostic_questions |-> FormatQuestions(framework.diagnostic_questions),
   user_answers |-> user_answers,
   red_flags |-> Get(framework.red_flag_indicators, <<"None specified">>),
   levers |-> Get(framework.levers, <<"None specified">>),
   related_frameworks |-> Get(framework.related_frameworks, <<"None">>)]

NoPrompt == [framework_name |-> <<>>]

\* The analysis made of the first offered framework.
AnalysisFramework_FirstOffered(selected, avail) ==
  IF avail # <<>> THEN framework_data(avail[1]) ELSE framework_data(selected)

\* framework = session.get_selected_framework()
AnalysisFramework(selected, avail) == framework_data(selected)

\* ------------------------------------------------------------ process_query
\* What one call of process_query does, given the session it finds and what
\* its collaborators answer: the intent i the classifier returns, how the
\* embedding call ends, the search results, the names the extractor finds and
\* how the handler's generation call ends.
\*   raised: a provider call raised, and process_query with it;
\*   response, frameworks: the pair returned;
\*   stage, selected, available: the session as process_query leaves it;
\*   ops: the routing steps performed; intent: the intent dispatched on;
\*   prompt: the analysis prompt built, if one was.
Unrouted(stage, selected, avail) ==
  [raised |-> FALSE, response |-> "none", frameworks |-> <<>>,
   stage |-> stage, selected |-> selected, available |-> avail,
   ops |-> {}, intent |-> "none", prompt |-> NoPrompt]

process_query(q, stage, selected, avail, i, embedded, results, mentioned, generated) ==
  LET base == Unrouted(stage, selected, avail)
      path == route(stage, avail, selected, q)
      d == dispatch(i, results, mentioned)
  IN
  IF path = "selection"
    THEN LET chosen == TrySelection(stage, avail, q)
         IN  [base EXCEPT !.response = "selection_confirmed",
                          !.frameworks = <<chosen>>,
                          !.stage = IF chosen # None THEN "diagnostic_active" ELSE @,
                          !.selected = IF chosen # None THEN chosen ELSE @]
  ELSE IF path = "answers"
    THEN LET prompt == build_diagnostic_analysis_prompt(
                         AnalysisFramework(selected, avail), q)
         IN  IF generated = "raised"
               THEN [base EXCEPT !.raised = TRUE, !.prompt = prompt]
               ELSE [base EXCEPT !.response = "analysis",
                                 !.stage = StageAfterHandler("analysis", @),
                                 !.prompt = prompt]
  ELSE IF embedded = "raised"
    THEN [base EXCEPT !.raised = TRUE, !.intent = i,
                      !.ops = {"enhance", "classify", "embed"}]
  ELSE IF ~d.llm
    THEN [base EXCEPT !.response = d.handler, !.frameworks = d.frameworks,
                      !.intent = i,
                      !.ops = {"enhance", "classify", "embed", "search"}]
  ELSE IF generated = "raised"
    THEN [base EXCEPT !.raised = TRUE, !.intent = i,
                      !.ops = {"enhance", "classify", "embed", "search"}]
  ELSE [base EXCEPT !.response = d.handler, !.frameworks = d.frameworks,
                    !.stage = StageAfterHandler(d.handler, @),
                    !.available = IF d.offers THEN d.frameworks ELSE @,
                    !.intent = i,
                    !.ops = {"enhance", "classify", "embed", "search"}]

\* ------------------------------------------------------------------- Init
NoSnapshot ==
  [stage |-> "idle", selected |-> None, available |-> <<>>, chosen |-> None]

ChatIdle ==
  /\ history = <<>>
  /\ current_stage = "idle"
  /\ selected_framework = None
  /\ available_frameworks = <<>>
  /\ show_frameworks = <<>>
  /\ pc = "input"
  /\ user_query = NoQuery
  /\ intent = "none"
  /\ response = "none"
  /\ frameworks = <<>>
  /\ call = NoCall
  /\ ops = {}
  /\ pre = NoSnapshot
  /\ outcome = "none"
  /\ nqueries = 0

\* No function is being called on its own.
NoArgs == [fn |-> "none"]
NotCalled == [called |-> FALSE]
Returned(value) == [called |-> TRUE, value |-> value]
FnIdle == fn_args = NoArgs /\ fn_result = NotCalled

Init == ChatIdle /\ FeedbackIdle /\ FnIdle

\* ------------------------------------------- actions of the retried call
AttemptSucceeds ==
  /\ call.status = "running"
  /\ LoopContinues(call)
  /\ call' = AfterSuccess(call)
  /\ UNCHANGED otherVars
  /\ UNCHANGED <<sessionVars, appVars, reqVars, pc, outcome, nqueries>>

AttemptFails ==
  /\ call.status = "running"
  /\ LoopContinues(call)
  /\ \E e \in Errors : call' = AfterFailure(call, e)
  /\ UNCHANGED otherVars
  /\ UNCHANGED <<sessionVars, appVars, reqVars, pc, outcome, nqueries>>

RaiseLast ==
  /\ call.status = "running"
  /\ ~LoopContinues(call)
  /\ call' = AfterLoop(call)
  /\ UNCHANGED otherVars
  /\ UNCHANGED <<sessionVars, appVars, reqVars, pc, outcome, nqueries>>

\* ------------------------------------------------ actions of the chat loop
\* main: a text arrives from chat_input; the user turn is recorded.
UserQuery ==
  /\ pc = "input"
  /\ nqueries < MaxQueries
  /\ \E q \in QuerySet :
       /\ history' = Append(history, [role |-> "user", error |-> FALSE])
       /\ user_query' = q
       /\ pre' = Snapshot(q)
  /\ outcome' = "none"
  /\ pc' = "route"
  /\ nqueries' = nqueries + 1
  /\ intent' = "none"
  /\ ops' = {}
  /\ UNCHANGED otherVars
  /\ UNCHANGED <<current_stage, selected_framework, appVars, response,
                 frameworks, call>>

\* main, once process_query has ended as r: with a pair returned the script
\* goes on to record it; with an exception, which nothing in process_query or
\* main catches, the script run ends there.
Ended(r) ==
  /\ current_stage' = r.stage
  /\ selected_framework' = r.selected
  /\ available_frameworks' = r.available
  /\ intent' = r.intent
  /\ ops' = r.ops
  /\ user_query' = NoQuery
  /\ IF r.raised
       THEN /\ outcome' = "error"
            /\ pc' = "input"
            /\ response' = "none"
            /\ frameworks' = <<>>
       ELSE /\ outcome' = outcome
            /\ pc' = "respond"
            /\ response' = r.response
            /\ frameworks' = r.frameworks
  /\ UNCHANGED otherVars
  /\ UNCHANGED <<history, show_frameworks, call, pre, nqueries>>

Path == route(current_stage, available_frameworks, selected_framework, user_query)

\* process_query, first path: the text selects an offered framework.
SelectionShortCircuit ==
  /\ pc = "route"
  /\ Path = "selection"
  /\ Ended(process_query(user_query, current_stage, selected_framework,
                         available_frameworks, INTENT_UNKNOWN, "returned",
                         <<>>, <<>>, "returned"))

\* process_query, second path: the text is the answers to the selected
\* framework's questions; the analysis calls the Narrative Generator.
DiagnosticAnswers ==
  /\ pc = "route"
  /\ Path = "answers"
  /\ \E generated \in GenerateEndings :
       Ended(process_query(user_query, current_stage, selected_framework,
                           available_frameworks, INTENT_UNKNOWN, "returned",
                           <<>>, <<>>, generated))

\* What the branch of intent i reads of the search results: the offering
\* branches the whole list, the named-target branches its first entry only.
ResultsRead(i) ==
  IF i \in NamedIntents THEN {s \in ResultLists : Len(s) <= 1} ELSE ResultLists

\* What the branch of intent i reads of the extracted names: the comparison
\* the first two, details and sequencing the first one; the other branches
\* do not call the Name Extractor.
MentionsRead(i) ==
  IF i = INTENT_COMPARISON THEN MentionLists
  ELSE IF i \in NamedIntents THEN {m \in MentionLists : Len(m) <= 1}
  ELSE {<<>>}

\* process_query, third path: enhance, classify, embed, search, dispatch.
\* The search and the dispatch run only once the embedding is back.
NormalRouting ==
  /\ pc = "route"
  /\ Path = "normal"
  /\ \E i \in Intents, embedded \in EmbedEndings :
       \E results \in IF embedded = "returned" THEN ResultsRead(i) ELSE {<<>>},
          mentioned \in IF embedded = "returned" THEN MentionsRead(i) ELSE {<<>>},
          generated \in IF embedded = "returned" THEN GenerateEndings
                        ELSE {"returned"} :
         Ended(process_query(user_query, current_stage, selected_framework,
                             available_frameworks, i, embedded, results,
                             mentioned, generated))

\* main: the assistant turn is recorded and the list to show is stored.
Respond ==
  /\ pc = "respond"
  /\ history' = Append(history, [role |-> "assistant", error |-> FALSE])
  /\ show_frameworks' = frameworks
  /\ outcome' = "ok"
  /\ pc' = "input"
  /\ intent' = "none"
  /\ response' = "none"
  /\ frameworks' = <<>>
  /\ ops' = {}
  /\ pre' = NoSnapshot
  /\ UNCHANGED otherVars
  /\ UNCHANGED <<current_stage, selected_framework, available_frameworks,
                 user_query, call, nqueries>>

\* render_sidebar: the "Start Fresh" button.
StartFresh ==
  /\ pc = "input"
  /\ history' = ClearedSession.history
  /\ current_stage' = ClearedSession.current_stage
  /\ selected_framework' = ClearedSession.selected_framework
  /\ show_frameworks' = <<>>
  /\ outcome' = "reset"
  /\ pre' = NoSnapshot
  /\ intent' = "none"
  /\ ops' = {}
  /\ UNCHANGED otherVars
  /\ UNCHANGED <<available_frameworks, pc, user_query, response, frameworks,
                 call, nqueries>>

Next ==
  \/ UserQuery
  \/ SelectionShortCircuit
  \/ DiagnosticAnswers
  \/ NormalRouting
  \/ Respond
  \/ StartFresh

Spec == Init /\ [][Next]_vars

\* ------------------------------ a retried call on its own, any max_retries
RetryInit ==
  /\ history = <<>>
  /\ current_stage = "idle"
  /\ selected_framework = None
  /\ available_frameworks = <<>>
  /\ show_frameworks = <<>>
  /\ pc = "provider"
  /\ user_query = NoQuery
  /\ intent = "none"
  /\ response = "none"
  /\ frameworks = <<>>
  /\ \E k \in CallKinds, m \in 0..MaxRetriesBound : call = NewCall(k, m)
  /\ ops = {}
  /\ pre = NoSnapshot
  /\ outcome = "none"
  /\ nqueries = 0
  /\ FeedbackIdle
  /\ FnIdle

RetryNext == AttemptSucceeds \/ AttemptFails \/ RaiseLast

\* Each attempt is a blocking call that completes or fails, and the loop then
\* goes on: a step that stays possible is taken.
RetrySpec == RetryInit /\ [][RetryNext]_vars /\ WF_vars(RetryNext)

\* ------------------------------------------------- rating a framework card
\* The buttons are never disabled.
ButtonEnabled_Always(existing_rating) == TRUE

\* st.button(..., disabled=existing_rating is not None)
ButtonEnabled(existing_rating) == existing_rating = None

\* The feedback record log_feedback builds; `session` is bookkeeping of the
\* model (which session pressed), not a field of the file.
FeedbackRecord(s, f, r, now) ==
  [timestamp |-> now, query |-> get_last_query(s), framework_id |-> f,
   rating |-> r, session |-> s]

\* A press of the thumbs-up (r = 1) or thumbs-down (r = -1) button of a card
\* of framework f in session s. A disabled button does nothing; an enabled
\* one enters log_feedback.
RateClick(s, f, r) ==
  /\ fb_pc[s] = "idle"
  /\ fb_clock < MaxClicks
  /\ fb_clock' = fb_clock + 1
  /\ IF ButtonEnabled(get_feedback_for_framework(s, f))
       THEN /\ fb_pc' = [fb_pc EXCEPT ![s] = "read"]
            /\ fb_local' = [fb_local EXCEPT ![s] =
                 [fb |-> FeedbackRecord(s, f, r, fb_clock + 1),
                  before |-> feedback_log, existing |-> <<>>,
                  result |-> "none"]]
            /\ fb_last' = [session |-> s, framework_id |-> f, rating |-> r,
                           ignored |-> FALSE]
       ELSE /\ fb_last' = [session |-> s, framework_id |-> f, rating |-> r,
                           ignored |-> TRUE]
            /\ UNCHANGED <<fb_pc, fb_local>>
  /\ UNCHANGED <<feedback_log, feedback, chatVars, fnVars>>

\* log_feedback, the try block up to existing.append(feedback): mkdir, then
\* the file is read and parsed. An absent or empty file gives []; a file
\* json.loads rejects, or an I/O error, ends the call with the warning.
ReadLog(s) ==
  /\ fb_pc[s] = "read"
  /\ \E io \in {"ok", "fails"} :
       IF io = "fails" \/ feedback_log.state = "corrupt"
         THEN /\ fb_local' = [fb_local EXCEPT ![s].result = "warned"]
              /\ fb_pc' = [fb_pc EXCEPT ![s] = "record"]
         ELSE /\ fb_local' = [fb_local EXCEPT ![s].existing =
                                Append(feedback_log.records, fb_local[s].fb)]
              /\ fb_pc' = [fb_pc EXCEPT ![s] = "write"]
  /\ UNCHANGED <<feedback_log, feedback, fb_last, fb_clock, chatVars, fnVars>>

\* What open(feedback_file, 'w') and json.dump leave in the file: the whole
\* list; the file untouched when open fails; an empty file when the dump
\* fails before anything is written; a cut-off text when it fails later.
WriteOutcomes(log, existing) ==
  {ValidLog(existing), log, ValidLog(<<>>), CorruptLog}

\* log_feedback: with open(feedback_file, 'w') as f: json.dump(existing, f).
WriteLog(s) ==
  /\ fb_pc[s] = "write"
  /\ \E after \in WriteOutcomes(feedback_log, fb_local[s].existing) :
       /\ feedback_log' = after
       /\ fb_local' = [fb_local EXCEPT ![s].result =
            IF after = ValidLog(fb_local[s].existing) THEN "logged" ELSE "warned"]
  /\ fb_pc' = [fb_pc EXCEPT ![s] = "record"]
  /\ UNCHANGED <<feedback, fb_last, fb_clock, chatVars, fnVars>>

\* render_framework_card: session.add_feedback(...) after log_feedback has
\* returned, with or without its warning; st.rerun().
AddFeedback(s) ==
  /\ fb_pc[s] = "record"
  /\ feedback' = [feedback EXCEPT ![s] =
       add_feedback(@, fb_local[s].fb.framework_id, fb_local[s].fb.rating)]
  /\ fb_pc' = [fb_pc EXCEPT ![s] = "idle"]
  /\ fb_local' = [fb_local EXCEPT ![s] = NoFeedbackCall]
  /\ UNCHANGED <<feedback_log, fb_last, fb_clock, chatVars, fnVars>>

\* One script run at a time touches the file.
OthersIdle(s) == \A t \in Sessions \ {s} : fb_pc[t] = "idle"

FeedbackInit == Init

FeedbackNext ==
  \E s \in Sessions :
    \/ OthersIdle(s) /\ \E f \in Frameworks, r \in Ratings : RateClick(s, f, r)
    \/ ReadLog(s)
    \/ WriteLog(s)
    \/ AddFeedback(s)

FeedbackSpec == FeedbackInit /\ [][FeedbackNext]_vars

\* ------------------------------------- overlapping calls of log_feedback
\* Each session runs its script in a thread of its own, and log_feedback
\* takes no lock: the steps of two calls interleave freely. Every read and
\* write succeeds here, so that what is lost is lost to the interleaving.
ReadLogOk(s) == ReadLog(s) /\ fb_pc'[s] = "write"

WriteLogOk(s) == WriteLog(s) /\ fb_local'[s].result = "logged"

OverlapNext ==
  \E s \in Sessions :
    \/ \E f \in Frameworks, r \in Ratings : RateClick(s, f, r)
    \/ ReadLogOk(s)
    \/ WriteLogOk(s)
    \/ AddFeedback(s)

OverlapSpec == FeedbackInit /\ [][OverlapNext]_vars

\* ------------------------------------- process_query on one routed query
\* What the collaborators hand to the dispatch of one query: the classified
\* intent, the search results, the names the extractor found, and how the
\* handler's generation call ends.
RouterInputs ==
  [fn : {"process_query"}, intent : Intents, results : ResultLists,
   mentioned : MentionLists, generated : GenerateEndings]

RouterInit ==
  /\ ChatIdle
  /\ FeedbackIdle
  /\ fn_args \in RouterInputs
  /\ fn_result = NotCalled

\* process_query from the idle stage, the embedding having returned.
RouteQuery ==
  /\ fn_args.fn = "process_query"
  /\ ~fn_result.called
  /\ fn_result' = Returned(process_query(NoQuery, "idle", None, <<>>,
                                fn_args.intent, "returned", fn_args.results,
                                fn_args.mentioned, fn_args.generated))
  /\ UNCHANGED <<fn_args, chatVars, fbVars>>

RouterNext == RouteQuery

RouterSpec == RouterInit /\ [][RouterNext]_vars

\* ------------------------- process_query on its own: the answers of a user
\* The session is in diagnostic_active with a framework selected; a list is
\* still offered from the diagnostic turn.
AnalysisInputs ==
  [fn : {"handle_diagnostic_analysis"}, selected : Frameworks,
   available : ResultLists, answers : QuerySet, generated : GenerateEndings]

AnalysisInit ==
  /\ ChatIdle
  /\ FeedbackIdle
  /\ fn_args \in AnalysisInputs
  /\ fn_result = NotCalled

AnalyzeAnswers ==
  /\ fn_args.fn = "handle_diagnostic_analysis"
  /\ ~fn_result.called
  /\ fn_result' = Returned(process_query(fn_args.answers, "diagnostic_active",
                                fn_args.selected, fn_args.available,
                                INTENT_UNKNOWN, "returned", <<>>, <<>>,
                                fn_args.generated))
  /\ UNCHANGED <<fn_args, chatVars, fbVars>>

AnalysisNext == AnalyzeAnswers

AnalysisSpec == AnalysisInit /\ [][AnalysisNext]_vars

\* ------------------------------------------------ enhance_query_with_context
\* Texts are sequences of characters.
\* bounds
MaxFill == 5
MaxHistory == 2

UpperLetters ==
  <<"A", "B", "C", "D", "E", "F", "G", "H", "I", "J", "K", "L", "M", "N", "O", "P", "Q", "R", "S", "T", "U", "V", "W", "X", "Y", "Z">>
LowerLetters ==
  <<"a", "b", "c", "d", "e", "f", "g", "h", "i", "j", "k", "l", "m", "n", "o", "p", "q", "r", "s", "t", "u", "v", "w", "x", "y", "z">>

\* str.lower(), one character
LowerChar(c) ==
  IF \E k \in 1..Len(UpperLetters) : UpperLetters[k] = c
    THEN LowerLetters[CHOOSE k \in 1..Len(UpperLetters) : UpperLetters[k] = c]
    ELSE c

\* str.upper(), one character
UpperChar(c) ==
  IF \E k \in 1..Len(LowerLetters) : LowerLetters[k] = c
    THEN UpperLetters[CHOOSE k \in 1..Len(LowerLetters) : LowerLetters[k] = c]
    ELSE c

lower(s) == [k \in 1..Len(s) |-> LowerChar(s[k])]
upper(s) == [k \in 1..Len(s) |-> UpperChar(s[k])]

\* str.strip(): leading and trailing blanks removed
strip(s) ==
  LET inked == {k \in 1..Len(s) : s[k] # " "}
  IN  IF inked = {} THEN <<>>
      ELSE SubSeq(s, CHOOSE k \in inked : \A m \in inked : k <= m,
                     CHOOSE k \in inked : \A m \in inked : k >= m)

\* len(s.split()): the number of blank-separated words
WordCount(s) ==
  Cardinality({k \in 1..Len(s) : s[k] # " " /\ (k = 1 \/ s[k - 1] = " ")})

\* p in s
Contains(s, p) ==
  \E k \in 0..(Len(s) - Len(p)) : SubSeq(s, k + 1, k + Len(p)) = p

\* any(p in s for p in phrases)
ContainsAny(s, phrases) ==
  \E n \in 1..Len(phrases) : Contains(s, phrases[n])

followup_indicators ==
  <<<<"w", "h", "a", "t", " ", "e", "l", "s", "e">>,
    <<"a", "n", "y", "t", "h", "i", "n", "g", " ", "e", "l", "s", "e">>,
    <<"o", "t", "h", "e", "r", " ", "o", "p", "t", "i", "o", "n", "s">>,
    <<"a", "l", "t", "e", "r", "n", "a", "t", "i", "v", "e", "s">>,
    <<"w", "h", "a", "t", " ", "a", "b", "o", "u", "t">>,
    <<"s", "h", "o", "w", " ", "m", "e", " ", "m", "o", "r", "e">>,
    <<"o", "t", "h", "e", "r", " ", "f", "r", "a", "m", "e", "w", "o", "r", "k", "s">>,
    <<"m", "o", "r", "e", " ", "o", "p", "t", "i", "o", "n", "s">>,
    <<"n", "a", "h">>,
    <<"n", "o">>,
    <<"n", "o", "t", " ", "t", "h", "a", "t", " ", "o", "n", "e">>,
    <<"d", "i", "f", "f", "e", "r", "e", "n", "t", " ", "o", "n", "e">>,
    <<"d", "i", "f", "f", "e", "r", "e", "n", "t">>,
    <<"a", "r", "e", " ", "t", "h", "e", "r", "e">>,
    <<"d", "o", " ", "y", "o", "u", " ", "h", "a", "v", "e", " ", "o", "t", "h", "e", "r">>,
    <<"s", "o", "m", "e", "t", "h", "i", "n", "g", " ", "e", "l", "s", "e">>>>

specific_intent_keywords ==
  <<<<"t", "e", "l", "l", " ", "m", "e", " ", "a", "b", "o", "u", "t">>,
    <<"e", "x", "p", "l", "a", "i", "n">>,
    <<"w", "h", "a", "t", " ", "i", "s">>,
    <<"d", "e", "s", "c", "r", "i", "b", "e">>,
    <<"d", "e", "t", "a", "i", "l", "s">>,
    <<"h", "o", "w", " ", "d", "o", "e", "s">>,
    <<"h", "o", "w", " ", "d", "o">>,
    <<"h", "o", "w", " ", "t", "o">>,
    <<"c", "o", "m", "p", "a", "r", "e">>,
    <<"v", "s">>,
    <<"v", "e", "r", "s", "u", "s">>,
    <<"b", "e", "f", "o", "r", "e">>,
    <<"a", "f", "t", "e", "r">>,
    <<"s", "e", "q", "u", "e", "n", "c", "e">>,
    <<"p", "r", "e", "r", "e", "q", "u", "i", "s", "i", "t", "e">>>>

ShortWords == 6
ShortChars == 30
LongTurn == 30

AlternativesOpen == <<" ", "(", "u", "s", "e", "r", " ", "w", "a", "n", "t", "s", " ", "a", "l", "t", "e", "r", "n", "a", "t", "i", "v", "e", "s", ":", " ">>
AlternativesClose == <<")">>

\* The if of enhance_query_with_context: the query may be rewritten.
Triggered(query) ==
  LET query_lower == strip(lower(query))
      is_followup == ContainsAny(query_lower, followup_indicators)
      is_specific_request == ContainsAny(query_lower, specific_intent_keywords)
      is_short == WordCount(query) < ShortWords
  IN  is_followup \/ (is_short /\ Len(query) < ShortChars /\ ~is_specific_request)

\* The comparison with the current query left out.
Qualifying_AnyLongUserTurn(query, turns) ==
  {k \in 1..Len(turns) :
     turns[k].role = "user" /\ Len(turns[k].content) > LongTurn}

\* for msg in reversed(history): the turns the two inner ifs accept.
Qualifying(query, turns) ==
  {k \in 1..Len(turns) :
     /\ turns[k].role = "user"
     /\ Len(turns[k].content) > LongTurn
     /\ strip(lower(turns[k].content)) # strip(lower(query))}

\* The history scanned forward: the oldest accepted turn is used.
enhance_OldestTurn(query, turns) ==
  LET found == Qualifying(query, turns)
  IN  IF Triggered(query) /\ found # {}
        THEN LET first == CHOOSE k \in found : \A m \in found : k <= m
             IN  turns[first].content \o AlternativesOpen \o query
                   \o AlternativesClose
        ELSE query

enhance_query_with_context(query, turns) ==
  LET found == Qualifying(query, turns)
  IN  IF Triggered(query) /\ found # {}
        THEN LET last == CHOOSE k \in found : \A m \in found : m <= k
             IN  turns[last].content \o AlternativesOpen \o query
                   \o AlternativesClose
        ELSE query

\* Queries and histories enhance_query_with_context is called on.
Blank == <<" ">>
HeadTexts ==
  {<<"n", "o">>,
   <<"N", "O">>,
   <<"k", "n", "o", "w">>,
   <<"e", "x", "p", "l", "a", "i", "n">>,
   <<"p", "r", "i", "c", "i", "n", "g">>,
   <<"w", "h", "a", "t", " ", "e", "l", "s", "e">>,
   <<" ", "n", "a", "h", " ">>}
ShortFiller == <<"o", "u", "r">>
LongFiller == <<"e", "n", "t", "e", "r", "p", "r", "i", "s", "e">>

RECURSIVE Repeat(_, _)
Repeat(word, n) == IF n = 0 THEN <<>> ELSE Blank \o word \o Repeat(word, n - 1)

TurnKinds == {"userA", "userB", "user30", "assistant", "retyped", "current"}
UserTextA == <<"o", "u", "r", " ", "c", "h", "u", "r", "n", " ", "r", "a", "t", "e", " ", "d", "o", "u", "b", "l", "e", "d", " ", "t", "h", "i", "s", " ", "q", "u", "a", "r", "t", "e", "r">>
UserTextB == <<"s", "a", "l", "e", "s", " ", "c", "y", "c", "l", "e", " ", "i", "s", " ", "t", "o", "o", " ", "l", "o", "n", "g", " ", "f", "o", "r", " ", "e", "n", "t", "e", "r", "p", "r", "i", "s", "e", " ", "d", "e", "a", "l", "s">>
UserText30 == <<"w", "e", " ", "k", "e", "e", "p", " ", "l", "o", "s", "i", "n", "g", " ", "d", "e", "a", "l", "s", " ", "t", "o", " ", "r", "i", "v", "a", "l", "s">>
AssistantText == <<"h", "e", "r", "e", " ", "a", "r", "e", " ", "t", "h", "r", "e", "e", " ", "f", "r", "a", "m", "e", "w", "o", "r", "k", "s", " ", "t", "h", "a", "t", " ", "f", "i", "t", " ", "y", "o", "u", "r", " ", "s", "i", "t", "u", "a", "t", "i", "o", "n">>

\* A turn of the history: an earlier problem statement, a 30-character user
\* text, an assistant reply, the current query typed before in capitals, or
\* the current query as main() has just recorded it.
Turn(kind, query) ==
  IF kind = "userA" THEN [role |-> "user", content |-> UserTextA]
  ELSE IF kind = "userB" THEN [role |-> "user", content |-> UserTextB]
  ELSE IF kind = "user30" THEN [role |-> "user", content |-> UserText30]
  ELSE IF kind = "assistant" THEN [role |-> "assistant", content |-> AssistantText]
  ELSE IF kind = "retyped" THEN [role |-> "user", content |-> upper(query) \o Blank]
  ELSE [role |-> "user", content |-> query]

RECURSIVE KindLists(_)
KindLists(n) ==
  IF n = 0 THEN {<<>>}
  ELSE LET shorter == KindLists(n - 1)
       IN  shorter \cup {Append(s, k) : s \in {t \in shorter : Len(t) = n - 1},
                                        k \in TurnKinds}

\* A head followed by up to MaxFill filler words.
EnhanceQueries ==
  UNION {{head \o Repeat(ShortFiller, n) \o Repeat(LongFiller, m) :
            head \in HeadTexts, m \in 0..(MaxFill - n)} : n \in 0..MaxFill}

EnhanceInputs ==
  {[fn |-> "enhance_query_with_context", query |-> q,
    history |-> [k \in 1..Len(kinds) |-> Turn(kinds[k], q)]] :
     q \in EnhanceQueries, kinds \in KindLists(MaxHistory)}

EnhanceInit ==
  /\ ChatIdle
  /\ FeedbackIdle
  /\ fn_args \in EnhanceInputs
  /\ fn_result = NotCalled

\* process_query: query = enhance_query_with_context(query, session)
EnhanceQuery ==
  /\ fn_args.fn = "enhance_query_with_context"
  /\ ~fn_result.called
  /\ fn_result' = Returned(enhance_query_with_context(fn_args.query,
                                                      fn_args.history))
  /\ UNCHANGED <<fn_args, chatVars, fbVars>>

EnhanceNext == EnhanceQuery

EnhanceSpec == EnhanceInit /\ [][EnhanceNext]_vars

\* ------------------------------------------- display-name canonicalization
\* bounds
MaxSuffixes == 2

DigitChars == <<"0", "1", "2", "3", "4", "5", "6", "7", "8", "9">>
IsDigit(c) == \E k \in 1..Len(DigitChars) : DigitChars[k] = c

\* How many characters at the end of s, counted back from position n, satisfy
\* the test: the run a greedy \d+ or \s+ takes.
RECURSIVE DigitRun(_, _)
DigitRun(s, n) == IF n >= 1 /\ IsDigit(s[n]) THEN 1 + DigitRun(s, n - 1) ELSE 0
RECURSIVE BlankRun(_, _)
BlankRun(s, n) == IF n >= 1 /\ s[n] = " " THEN 1 + BlankRun(s, n - 1) ELSE 0

\* re.sub(r'\s+\d+$', '', name): one trailing number, with the blanks before
\* it, is removed.
clean_framework_name(name) ==
  LET digits == DigitRun(name, Len(name))
      blanks == BlankRun(name, Len(name) - digits)
  IN  IF digits >= 1 /\ blanks >= 1
        THEN SubSeq(name, 1, Len(name) - digits - blanks)
        ELSE name

\* s.split(ch)[0]: the text before the first ch
Before(s, ch) ==
  IF \E k \in 1..Len(s) : s[k] = ch
    THEN SubSeq(s, 1, (CHOOSE k \in 1..Len(s) :
                         s[k] = ch /\ \A m \in 1..(k - 1) : s[m] # ch) - 1)
    ELSE s

\* s[:n]
Take(s, n) == SubSeq(s, 1, IF Len(s) < n THEN Len(s) ELSE n)

\* str(id) for a non-negative id
RECURSIVE IdText(_)
IdText(n) ==
  IF n < 10 THEN <<DigitChars[n + 1]>>
  ELSE Append(IdText(n \div 10), DigitChars[(n % 10) + 1])

GenericName == <<"F", "r", "a", "m", "e", "w", "o", "r", "k">>
Ellipsis == <<".", ".", ".">>
FrameworkSuffix == <<" ", "F", "r", "a", "m", "e", "w", "o", "r", "k">>
FrameworkNumber == <<"F", "r", "a", "m", "e", "w", "o", "r", "k", " ", "#">>
UseCaseMin == 15
PhraseMax == 60

\* re.match(r'^Framework \d+$', name)
IsNumberedGeneric(name) ==
  LET digits == DigitRun(name, Len(name))
  IN  digits >= 1 /\ SubSeq(name, 1, Len(name) - digits) = GenericName \o Blank

\* format_framework_display_name (app.py)
format_framework_display_name(framework) ==
  LET name == framework.name
      cleaned_name == clean_framework_name(name)
      use_case == framework.use_case
      domains == framework.business_domains
      fw_type == framework.type
      first_phrase == Take(Before(Before(use_case, "."), ","), PhraseMax)
  IN  IF cleaned_name = GenericName \/ IsNumberedGeneric(name)
        THEN IF use_case # <<>> /\ Len(use_case) > UseCaseMin
               THEN IF first_phrase # <<>>
                      THEN first_phrase \o Ellipsis
                      ELSE cleaned_name
             ELSE IF domains # <<>>
               THEN strip(Before(domains, ",")) \o FrameworkSuffix
             ELSE IF fw_type # <<>>
               THEN fw_type \o Blank \o FrameworkNumber \o IdText(framework.id)
             ELSE FrameworkNumber \o IdText(framework.id)
        ELSE cleaned_name

PromptPhraseMax == 50

\* _format_framework_display_name (utils/llm.py), the name put in prompts
llm_format_framework_display_name(framework) ==
  LET name == framework.name
      cleaned_name == clean_framework_name(name)
      use_case == framework.use_case
      domains == framework.business_domains
      fw_type == framework.type
      first_phrase == Take(Before(Before(use_case, "."), ","), PromptPhraseMax)
  IN  IF cleaned_name = GenericName \/ IsNumberedGeneric(name)
        THEN IF use_case # <<>> /\ Len(use_case) > UseCaseMin
               THEN IF first_phrase # <<>>
                      THEN first_phrase \o Ellipsis
                      ELSE cleaned_name
             ELSE IF domains # <<>>
               THEN strip(Before(domains, ",")) \o FrameworkSuffix
             ELSE IF fw_type # <<>>
               THEN fw_type \o Blank \o FrameworkNumber \o IdText(framework.id)
             ELSE FrameworkNumber \o IdText(framework.id)
        ELSE cleaned_name

\* Catalog records the canonicalization is applied to.
NameStems == {<<"A", "l", "p", "h", "a">>, <<"F", "r", "a", "m", "e", "w", "o", "r", "k">>}
NumberTokens == {<<" ", "3">>, <<" ", "9">>, <<" ", " ", "1", "2">>}

RECURSIVE Suffixed(_, _)
Suffixed(stems, n) ==
  IF n = 0 THEN stems
  ELSE LET shorter == Suffixed(stems, n - 1)
       IN  shorter \cup {s \o t : s \in shorter, t \in NumberTokens}

CatalogNames == Suffixed(NameStems, MaxSuffixes)

UseCases ==
  {<<>>,
   <<"S", "t", "a", "l", "l", "e", "d", " ", "d", "e", "a", "l", "s">>,
   <<"U", "s", "e", " ", "w", "h", "e", "n", " ", "d", "e", "a", "l", "s", " ", "s", "t", "a", "l", "l", " ", "l", "a", "t", "e", ",", " ", "o", "r", " ", "f", "o", "r", "e", "c", "a", "s", "t", "s", " ", "s", "l", "i", "p", ".", " ", "W", "o", "r", "k", "s", " ", "f", "o", "r", " ", "b", "2", "b", " ", "t", "e", "a", "m", "s">>,
   <<".", "U", "s", "e", " ", "w", "h", "e", "n", " ", "d", "e", "a", "l", "s", " ", "s", "t", "a", "l", "l", " ", "l", "a", "t", "e", ",", " ", "o", "r", " ", "f", "o", "r", "e", "c", "a", "s", "t", "s", " ", "s", "l", "i", "p", ".", " ", "W", "o", "r", "k", "s", " ", "f", "o", "r", " ", "b", "2", "b", " ", "t", "e", "a", "m", "s">>,
   <<"U", "s", "e", " ", "w", "h", "e", "n", " ", "p", "i", "p", "e", "l", "i", "n", "e", " ", "r", "e", "v", "i", "e", "w", "s", " ", "k", "e", "e", "p", " ", "s", "t", "a", "l", "l", "i", "n", "g", " ", "b", "e", "c", "a", "u", "s", "e", " ", "o", "w", "n", "e", "r", "s", "h", "i", "p", " ", "i", "s", " ", "u", "n", "c", "l", "e", "a", "r", " ", "a", "c", "r", "o", "s", "s", " ", "r", "e", "g", "i", "o", "n", "a", "l", " ", "s", "a", "l", "e", "s", " ", "t", "e", "a", "m", "s">>}
DomainTexts == {<<>>, <<" ", "S", "a", "l", "e", "s", ",", " ", "M", "a", "r", "k", "e", "t", "i", "n", "g">>}
TypeTexts == {<<>>, <<"D", "i", "a", "g", "n", "o", "s", "t", "i", "c">>}

CatalogRecords ==
  [id : Frameworks, name : CatalogNames, use_case : UseCases,
   business_domains : DomainTexts, type : TypeTexts]

CanonInputs ==
  {[fn |-> "format_framework_display_name", framework |-> fw] :
     fw \in CatalogRecords}

CanonInit ==
  /\ ChatIdle
  /\ FeedbackIdle
  /\ fn_args \in CanonInputs
  /\ fn_result = NotCalled

\* The record is canonicalized: the display name of the chat card, the name
\* put in prompts and the cleaned name of the listings.
Canonicalize ==
  /\ fn_args.fn = "format_framework_display_name"
  /\ ~fn_result.called
  /\ fn_result' =
       Returned([again |-> FALSE,
                 display |-> format_framework_display_name(fn_args.framework),
                 prompt |->
                   llm_format_framework_display_name(fn_args.framework),
                 cleaned |-> clean_framework_name(fn_args.framework.name),
                 display_again |-> <<>>,
                 cleaned_again |-> <<>>])
  /\ UNCHANGED <<fn_args, chatVars, fbVars>>

\* The canonical name is canonicalized again, as the name of the same record.
CanonicalizeAgain ==
  /\ fn_args.fn = "format_framework_display_name"
  /\ fn_result.called
  /\ ~fn_result.value.again
  /\ fn_result' =
       Returned([fn_result.value EXCEPT
         !.again = TRUE,
         !.display_again =
            format_framework_display_name(
              [fn_args.framework EXCEPT !.name = fn_result.value.display]),
         !.cleaned_again = clean_framework_name(fn_result.value.cleaned)])
  /\ UNCHANGED <<fn_args, chatVars, fbVars>>

CanonNext == Canonicalize \/ CanonicalizeAgain

CanonSpec == CanonInit /\ [][CanonNext]_vars

\* ------------------------------------------------------ listing operations
\* bounds
MaxCatalog == 3

\* The characters of the texts, in code point order.
CodePoints ==
  <<" ", "#", "(", ")", ",", ".", ":", "0", "1", "2", "3", "4", "5", "6", "7", "8", "9", "A", "B", "C", "D", "E", "F", "G", "H", "I", "J", "K", "L", "M", "N", "O", "P", "Q", "R", "S", "T", "U", "V", "W", "X", "Y", "Z", "a", "b", "c", "d", "e", "f", "g", "h", "i", "j", "k", "l", "m", "n", "o", "p", "q", "r", "s", "t", "u", "v", "w", "x", "y", "z">>
Ord(c) == CHOOSE k \in 1..Len(CodePoints) : CodePoints[k] = c

\* a <= b for strings (Python's str comparison)
RECURSIVE TextLeq(_, _)
TextLeq(a, b) ==
  IF a = <<>> THEN TRUE
  ELSE IF b = <<>> THEN FALSE
  ELSE IF a[1] = b[1] THEN TextLeq(Tail(a), Tail(b))
  ELSE Ord(a[1]) < Ord(b[1])

\* The seen-names test left out: every named record is kept.
RECURSIVE UniqueByCleanedName_KeepsAll(_, _)
UniqueByCleanedName_KeepsAll(fws, seen_names) ==
  IF fws = <<>> THEN <<>>
  ELSE LET fw == Head(fws)
           cleaned_name == clean_framework_name(fw.name)
       IN  IF cleaned_name # <<>>
             THEN <<[id |-> fw.id, name |-> fw.name,
                     display_name |-> cleaned_name]>>
                    \o UniqueByCleanedName_KeepsAll(Tail(fws), seen_names)
             ELSE UniqueByCleanedName_KeepsAll(Tail(fws), seen_names)

\* The loop of get_unique_frameworks and of group_frameworks_alphabetically:
\* a record is kept, with its cleaned name as _display_name, when that name
\* is not empty and has not been seen.
RECURSIVE UniqueByCleanedName(_, _)
UniqueByCleanedName(fws, seen_names) ==
  IF fws = <<>> THEN <<>>
  ELSE LET fw == Head(fws)
           cleaned_name == clean_framework_name(fw.name)
       IN  IF cleaned_name # <<>> /\ cleaned_name \notin seen_names
             THEN <<[id |-> fw.id, name |-> fw.name,
                     display_name |-> cleaned_name]>>
                    \o UniqueByCleanedName(Tail(fws),
                                           seen_names \cup {cleaned_name})
             ELSE UniqueByCleanedName(Tail(fws), seen_names)

\* list.sort(key=lambda x: x['_display_name'].upper()): stable, ascending
RECURSIVE InsertByName(_, _)
InsertByName(x, sorted) ==
  IF sorted = <<>> THEN <<x>>
  ELSE IF TextLeq(upper(Head(sorted).display_name), upper(x.display_name))
    THEN <<Head(sorted)>> \o InsertByName(x, Tail(sorted))
    ELSE <<x>> \o sorted

RECURSIVE SortByName(_)
SortByName(s) ==
  IF s = <<>> THEN <<>>
  ELSE InsertByName(s[Len(s)], SortByName(SubSeq(s, 1, Len(s) - 1)))

get_unique_frameworks(fws) == SortByName(UniqueByCleanedName(fws, {}))

\* display_name[0].upper() if it is a letter, else "#"
GroupLetter(display_name) ==
  LET first_char == UpperChar(display_name[1])
  IN  IF \E k \in 1..Len(UpperLetters) : UpperLetters[k] = first_char
        THEN first_char ELSE "#"

\* s with the entries that satisfy nothing removed: the entries of letter l
RECURSIVE OfLetter(_, _)
OfLetter(s, l) ==
  IF s = <<>> THEN <<>>
  ELSE IF GroupLetter(Head(s).display_name) = l
    THEN <<Head(s)>> \o OfLetter(Tail(s), l)
    ELSE OfLetter(Tail(s), l)

\* group_frameworks_alphabetically: letter -> the entries under it
group_frameworks_alphabetically(fws) ==
  LET unique_frameworks == SortByName(UniqueByCleanedName(fws, {}))
      letters == {GroupLetter(unique_frameworks[k].display_name) :
                    k \in 1..Len(unique_frameworks)}
  IN  [l \in letters |-> OfLetter(unique_frameworks, l)]

\* s.find(p)
Find(s, p) ==
  CHOOSE k \in 0..(Len(s) - Len(p)) :
    /\ SubSeq(s, k + 1, k + Len(p)) = p
    /\ \A m \in 0..(k - 1) : SubSeq(s, m + 1, m + Len(p)) # p

\* score = start_bonus + length_ratio * 5 - position * 0.1, as the fraction
\* num / den with den = 10 * len(name_lower) (0 / 1 for an empty name).
Score(name_lower, query_lower) ==
  LET position == Find(name_lower, query_lower)
      start_bonus == IF position = 0 THEN 10 ELSE 0
  IN  IF name_lower = <<>> THEN [num |-> start_bonus, den |-> 1]
      ELSE [num |-> 10 * start_bonus * Len(name_lower)
                      + 50 * Len(query_lower) - position * Len(name_lower),
            den |-> 10 * Len(name_lower)]

ScoreGeq(a, b) == a.num * b.den >= b.num * a.den

\* The first loop of fuzzy_search_frameworks: the records whose cleaned name
\* contains the query.
RECURSIVE Matches(_, _)
Matches(fws, query_lower) ==
  IF fws = <<>> THEN <<>>
  ELSE LET fw == Head(fws)
           cleaned_name == clean_framework_name(fw.name)
           name_lower == lower(cleaned_name)
       IN  IF Contains(name_lower, query_lower)
             THEN <<[id |-> fw.id, name |-> fw.name,
                     display_name |-> cleaned_name,
                     search_score |-> Score(name_lower, query_lower)]>>
                    \o Matches(Tail(fws), query_lower)
             ELSE Matches(Tail(fws), query_lower)

\* matches.sort(key=score, reverse=True): stable, descending
RECURSIVE InsertByScore(_, _)
InsertByScore(x, sorted) ==
  IF sorted = <<>> THEN <<x>>
  ELSE IF ScoreGeq(Head(sorted).search_score, x.search_score)
    THEN <<Head(sorted)>> \o InsertByScore(x, Tail(sorted))
    ELSE <<x>> \o sorted

RECURSIVE SortByScore(_)
SortByScore(s) ==
  IF s = <<>> THEN <<>>
  ELSE InsertByScore(s[Len(s)], SortByScore(SubSeq(s, 1, Len(s) - 1)))

\* The last loop of fuzzy_search_frameworks: the first match of each display
\* name is kept; the loop stops once max_results are kept.
RECURSIVE UniqueMatches(_, _, _, _)
UniqueMatches(matches, seen_names, found, max_results) ==
  IF matches = <<>> THEN <<>>
  ELSE IF Head(matches).display_name \notin seen_names
    THEN IF found + 1 >= max_results
           THEN <<Head(matches)>>
           ELSE <<Head(matches)>>
                  \o UniqueMatches(Tail(matches),
                       seen_names \cup {Head(matches).display_name},
                       found + 1, max_results)
    ELSE UniqueMatches(Tail(matches), seen_names, found, max_results)

DefaultMaxResults == 10
MinQuery == 2

fuzzy_search_frameworks(fws, query, max_results) ==
  IF Len(query) < MinQuery THEN <<>>
  ELSE UniqueMatches(SortByScore(Matches(fws, strip(lower(query)))),
                     {}, 0, max_results)

\* Catalogs the listing operations are called on: records with unique ids,
\* names with and without numbering.
ListingNames ==
  {<<"A", "l", "p", "h", "a">>,
   <<"A", "l", "p", "h", "a", " ", "3">>,
   <<"A", "l", "p", "h", "a", " ", "9">>,
   <<"A", "l", "p", "h", "a", " ", "3", " ", "9">>,
   <<"A", "l", "p", "h", "a", " ", "3", " ", "3">>,
   <<"B", "e", "t", "a", " ", "3">>}

RECURSIVE NameLists(_)
NameLists(n) ==
  IF n = 0 THEN {<<>>}
  ELSE LET shorter == NameLists(n - 1)
       IN  shorter \cup {Append(s, x) : s \in {t \in shorter : Len(t) = n - 1},
                                        x \in ListingNames}

Catalogs ==
  {[k \in 1..Len(names) |-> [id |-> k, name |-> names[k]]] :
     names \in NameLists(MaxCatalog)}

SearchTexts ==
  {<<"a">>, <<"A", "l">>, <<"h", "a", " ">>, <<"t", "a">>}

ListingInputs ==
  [fn : {"get_unique_frameworks", "group_frameworks_alphabetically"},
   frameworks : Catalogs]
  \cup
  [fn : {"fuzzy_search_frameworks"}, frameworks : Catalogs,
   query : SearchTexts, max_results : {1, DefaultMaxResults}]

ListingInit ==
  /\ ChatIdle
  /\ FeedbackIdle
  /\ fn_args \in ListingInputs
  /\ fn_result = NotCalled

GetUnique ==
  /\ fn_args.fn = "get_unique_frameworks"
  /\ ~fn_result.called
  /\ fn_result' = Returned(get_unique_frameworks(fn_args.frameworks))
  /\ UNCHANGED <<fn_args, chatVars, fbVars>>

GroupAlphabetically ==
  /\ fn_args.fn = "group_frameworks_alphabetically"
  /\ ~fn_result.called
  /\ fn_result' = Returned(group_frameworks_alphabetically(fn_args.frameworks))
  /\ UNCHANGED <<fn_args, chatVars, fbVars>>

FuzzySearch ==
  /\ fn_args.fn = "fuzzy_search_frameworks"
  /\ ~fn_result.called
  /\ fn_result' = Returned(fuzzy_search_frameworks(fn_args.frameworks,
                             fn_args.query, fn_args.max_results))
  /\ UNCHANGED <<fn_args, chatVars, fbVars>>

ListingNext == GetUnique \/ GroupAlphabetically \/ FuzzySearch

ListingSpec == ListingInit /\ [][ListingNext]_vars

\* ------------------------------ selection resolution on the text of a reply
\* The names of the catalog frameworks.
CatalogNameTable ==
  <<<<"S", "P", "I", "N", " ", "S", "e", "l", "l", "i", "n", "g">>,
    <<"M", "E", "D", "D", "I", "C">>,
    <<"B", "A", "N", "T">>,
    <<"C", "h", "a", "l", "l", "e", "n", "g", "e", "r", " ", "S", "a", "l", "e">>>>
catalog_name(f) == CatalogNameTable[f]

\* int(text) of a run of digits
RECURSIVE IntValue(_)
IntValue(t) ==
  IF t = <<>> THEN 0
  ELSE 10 * IntValue(SubSeq(t, 1, Len(t) - 1))
         + ((CHOOSE k \in 1..10 : DigitChars[k] = t[Len(t)]) - 1)

IsBareInteger(t) == t # <<>> /\ \A k \in 1..Len(t) : IsDigit(t[k])

\* What selection resolution reads in a reply, given the offered list: the
\* bare integer it is, or the first offered framework whose name contains it,
\* case-insensitively.
ReadSelection(text, avail) ==
  LET t == strip(text)
      hits == {k \in 1..Len(avail) :
                 Contains(lower(catalog_name(avail[k])), lower(t))}
  IN  IF IsBareInteger(t)
        THEN [num |-> IntValue(t), name |-> None]
      ELSE IF hits # {}
        THEN [num |-> 0,
              name |-> avail[CHOOSE k \in hits : \A m \in hits : k <= m]]
      ELSE [num |-> 0, name |-> None]

SelectionTexts ==
  {<<"1">>,
   <<"2">>,
   <<"3">>,
   <<"0">>,
   <<" ", "2", " ">>,
   <<"1", "2">>,
   <<"m", "e", "d", "d", "i", "c">>,
   <<"M", "E", "D", "D", "I", "C">>,
   <<"S", "p", "i", "n">>,
   <<"e", "d", "d", "i">>,
   <<"2", "n", "d">>,
   <<"t", "e", "l", "l", " ", "m", "e", " ", "a", "b", "o", "u", "t", " ", "S", "P", "I", "N">>,
   <<"b", "a", "n", "t">>}

SelectionInputs ==
  [fn : {"handle_framework_selection"}, text : SelectionTexts,
   available : ResultLists \ {<<>>}, selected : Frameworks \cup {None},
   intent : Intents, results : {r \in ResultLists : Len(r) <= 1},
   generated : GenerateEndings]

SelectionInit ==
  /\ ChatIdle
  /\ FeedbackIdle
  /\ fn_args \in SelectionInputs
  /\ fn_result = NotCalled

\* process_query in framework_selection: the reply is tried as a selection
\* and, failing that, routed as a query.
ResolveReply ==
  /\ fn_args.fn = "handle_framework_selection"
  /\ ~fn_result.called
  /\ LET q == ReadSelection(fn_args.text, fn_args.available)
     IN  fn_result' =
           Returned([chosen |-> TrySelection("framework_selection",
                                             fn_args.available, q),
                     after |-> process_query(q, "framework_selection",
                                 fn_args.selected, fn_args.available,
                                 fn_args.intent, "returned", fn_args.results,
                                 <<>>, fn_args.generated)])
  /\ UNCHANGED <<fn_args, chatVars, fbVars>>

SelectionNext == ResolveReply

SelectionSpec == SelectionInit /\ [][SelectionNext]_vars

\* ------------------------------------------------------ the embedding index
\* What the catalog stores of a framework for filtering.
business_domains(f) ==
  IF f = 1 THEN {"Sales"}
  ELSE IF f = 2 THEN {"Sales", "Marketing"}
  ELSE {"Strategy"}
difficulty_level(f) == IF f = 2 THEN "advanced" ELSE "beginner"
framework_type(f) == IF f = 1 THEN "Diagnostic" ELSE "Process"

\* Cosine similarities, as ranks: a query vector is known by the similarity
\* it has to each framework.
MaxSimilarity == 2
Similarities == [Frameworks -> 0..MaxSimilarity]

DefaultTopK == 5
\* An optional argument: None, or a value.
NoFilter == [given |-> FALSE]
Filter(value) == [given |-> TRUE, value |-> value]
All == "All"

\* The filters as process_query passes them: no domains selected is no
\* domain filter, "All" is no difficulty or type filter.
DomainsArg(domains_filter) ==
  IF domains_filter # {} THEN Filter(domains_filter) ELSE NoFilter
FilterArg(choice) == IF choice # All THEN Filter(choice) ELSE NoFilter

Eligible(f, domains, difficulty, fw_type) ==
  /\ ~domains.given \/ business_domains(f) \cap domains.value # {}
  /\ ~difficulty.given \/ difficulty_level(f) = difficulty.value
  /\ ~fw_type.given \/ framework_type(f) = fw_type.value

\* Equal similarities ordered by descending id.
RanksBefore_LaterIdFirst(sim, a, b) ==
  sim[a] > sim[b] \/ (sim[a] = sim[b] /\ a > b)

\* a comes before b in the results: more similar, or as similar with the
\* smaller id.
RanksBefore(sim, a, b) ==
  sim[a] > sim[b] \/ (sim[a] = sim[b] /\ a < b)

RECURSIVE Ranked(_, _)
Ranked(sim, fs) ==
  IF fs = {} THEN <<>>
  ELSE LET first == CHOOSE a \in fs : \A b \in fs \ {a} : RanksBefore(sim, a, b)
       IN  <<first>> \o Ranked(sim, fs \ {first})

\* search(query_embedding, domains, difficulty, framework_type, top_k)
search(sim, domains, difficulty, fw_type, top_k) ==
  LET eligible == {f \in Frameworks : Eligible(f, domains, difficulty, fw_type)}
      ranked == Ranked(sim, eligible)
  IN  [k \in 1..(IF Len(ranked) < top_k THEN Len(ranked) ELSE top_k) |->
         [framework_id |-> ranked[k], similarity |-> sim[ranked[k]]]]

SearchInputs ==
  [fn : {"search"}, query_embedding : Similarities,
   domains_filter : SUBSET {"Sales", "Strategy"},
   difficulty_filter : {All, "beginner", "advanced"},
   type_filter : {All, "Diagnostic"},
   top_k : {1, 2, DefaultTopK}]

SearchInit ==
  /\ ChatIdle
  /\ FeedbackIdle
  /\ fn_args \in SearchInputs
  /\ fn_result = NotCalled

SearchResults ==
  search(fn_args.query_embedding, DomainsArg(fn_args.domains_filter),
         FilterArg(fn_args.difficulty_filter), FilterArg(fn_args.type_filter),
         fn_args.top_k)

\* process_query: the search with the active filters.
Search ==
  /\ fn_args.fn = "search"
  /\ ~fn_result.called
  /\ fn_result' = Returned([results |-> SearchResults, repeated |-> FALSE,
                            again |-> <<>>])
  /\ UNCHANGED <<fn_args, chatVars, fbVars>>

\* The same search once more.
SearchAgain ==
  /\ fn_args.fn = "search"
  /\ fn_result.called
  /\ ~fn_result.value.repeated
  /\ fn_result' = Returned([fn_result.value EXCEPT !.repeated = TRUE,
                                                   !.again = SearchResults])
  /\ UNCHANGED <<fn_args, chatVars, fbVars>>

SearchNext == Search \/ SearchAgain

SearchSpec == SearchInit /\ [][SearchNext]_vars

\* ------------------------------- the chat loop with the text of its turns
\* One script run of main() per step, from the text typed to the assistant
\* turn recorded, over a session that keeps the text and the metadata of its
\* turns. The Intent Classifier is a function of the text it is given, the
\* same at every call; which function is not known, so every one is tried.
MaxPasses == 2

WhatElse == <<"w", "h", "a", "t", " ", "e", "l", "s", "e">>
SecondOne == <<"2">>
PassQueries == {UserTextA, WhatElse, SecondOne}

\* The texts the classifier can be given: a query as typed, or as rewritten.
PassTexts ==
  PassQueries \cup
    {enhance_query_with_context(q, <<[role |-> "user", content |-> UserTextA]>>) :
       q \in PassQueries}

PassIntents == {INTENT_DIAGNOSTIC, INTENT_DISCOVERY, INTENT_UNKNOWN}

\* What the search returns in these runs.
PassResults == <<1, 2>>

NoMetadata == [intent |-> "none", frameworks_shown |-> <<>>]

NoPass ==
  [user_query |-> <<>>, query |-> <<>>, path |-> "none", raised |-> FALSE,
   dispatched |-> "none", response |-> "none", before |-> <<>>]

NewSession ==
  [history |-> <<>>, current_stage |-> "idle", selected_framework |-> None,
   available_frameworks |-> <<>>, show_frameworks |-> <<>>, passes |-> 0,
   last |-> NoPass]

TurnsInit ==
  /\ ChatIdle
  /\ FeedbackIdle
  /\ fn_args \in [fn : {"main"}, detect_intent : [PassTexts -> PassIntents]]
  /\ fn_result = Returned(NewSession)

\* main: `if user_query:` to st.rerun(), or to the exception that ends the
\* script run.
ScriptRun(sess, typed, generated) ==
  LET recorded ==
        Append(sess.history,
               [role |-> "user", content |-> typed, metadata |-> NoMetadata])
      reply == ReadSelection(typed, sess.available_frameworks)
      path == route(sess.current_stage, sess.available_frameworks,
                    sess.selected_framework, reply)
      query == enhance_query_with_context(typed, recorded)
      classified == fn_args.detect_intent[query]
      r == process_query(reply, sess.current_stage, sess.selected_framework,
                         sess.available_frameworks, classified, "returned",
                         PassResults, <<>>, generated)
      pass == [user_query |-> typed,
               query |-> IF path = "normal" THEN query ELSE typed,
               path |-> path, raised |-> r.raised, dispatched |-> r.intent,
               response |-> r.response, before |-> sess.history]
      processed ==
        [sess EXCEPT !.current_stage = r.stage,
                     !.selected_framework = r.selected,
                     !.available_frameworks = r.available,
                     !.passes = @ + 1,
                     !.last = pass]
  IN  IF r.raised
        THEN [processed EXCEPT !.history = recorded]
        ELSE [processed EXCEPT
                !.history =
                   Append(recorded,
                          [role |-> "assistant", content |-> <<r.response>>,
                           metadata |->
                             [intent |-> fn_args.detect_intent[typed],
                              frameworks_shown |-> r.frameworks]]),
                !.show_frameworks = r.frameworks]

ChatPass ==
  /\ fn_args.fn = "main"
  /\ fn_result.value.passes < MaxPasses
  /\ \E typed \in PassQueries, generated \in GenerateEndings :
       fn_result' = Returned(ScriptRun(fn_result.value, typed, generated))
  /\ UNCHANGED <<fn_args, chatVars, fbVars>>

TurnsNext == ChatPass

TurnsSpec == TurnsInit /\ [][TurnsNext]_vars

\* ---------------------------------------------------- the Framework Library
\* One script run of render_framework_library per step, with at most one
\* button pressed in it. The frameworks it is given are the catalog as loaded
\* for that run; a record may have the id 0.
MaxLibraryRuns == 6

NoId == -1
Truthy(id) == id # NoId /\ id # 0

LibraryRecords ==
  <<[id |-> 1, name |-> <<"A", "l", "p", "h", "a", " ", "3">>],
    [id |-> 2, name |-> <<"B", "e", "t", "a", " ", "3">>],
    [id |-> 3, name |-> <<"A", "l", "p", "h", "a", " ", "9">>],
    [id |-> 0, name |-> <<"G", "a", "m", "m", "a">>]>>

LibraryCatalogs == {SubSeq(LibraryRecords, 1, n) : n \in 1..Len(LibraryRecords)}

\* init_library_state on a new session
InitialLibrary ==
  [library_view |-> "index", library_framework_id |-> NoId,
   prefilled_query |-> <<>>, action |-> "None", pressed |-> "none", runs |-> 0]

\* Only the view is reset.
navigate_to_index_KeepsId(lib) == [lib EXCEPT !.library_view = "index"]

navigate_to_framework(lib, framework_id) ==
  [lib EXCEPT !.library_view = "detail", !.library_framework_id = framework_id]

navigate_to_index(lib) ==
  [lib EXCEPT !.library_view = "index", !.library_framework_id = NoId]

\* get_framework_by_id: the positions of the records with that id
Positions(fws, id) == {k \in 1..Len(fws) : fws[k].id = id}

\* get_prev_next_frameworks: the position of the current framework in the
\* unique list, or 0
CurrentIdx(unique_frameworks, current_id) ==
  IF Positions(unique_frameworks, current_id) = {} THEN 0
  ELSE CHOOSE k \in Positions(unique_frameworks, current_id) :
         \A m \in Positions(unique_frameworks, current_id) : k <= m

\* render_framework_library shows the detail page of a framework it finds.
ShowsDetail(lib, fws) ==
  /\ lib.library_view = "detail"
  /\ Truthy(lib.library_framework_id)
  /\ Positions(fws, lib.library_framework_id) # {}

ShowsNotFound(lib, fws) ==
  /\ lib.library_view = "detail"
  /\ Truthy(lib.library_framework_id)
  /\ Positions(fws, lib.library_framework_id) = {}

ShowsIndex(lib) ==
  ~(lib.library_view = "detail" /\ Truthy(lib.library_framework_id))

LibraryInit ==
  /\ ChatIdle
  /\ FeedbackIdle
  /\ fn_args = [fn |-> "render_framework_library"]
  /\ fn_result = Returned(InitialLibrary)

\* The script run ends in the library as next, the button and the action
\* returned noted.
LibraryRun(next, pressed, action) ==
  /\ fn_result' = Returned([next EXCEPT !.pressed = pressed,
                                        !.action = action,
                                        !.runs = @ + 1])
  /\ UNCHANGED <<fn_args, chatVars, fbVars>>

LibraryReady ==
  /\ fn_args.fn = "render_framework_library"
  /\ fn_result.value.runs < MaxLibraryRuns

\* A "View" button of the index: `if selected_id: navigate_to_framework`.
ViewPressed ==
  /\ LibraryReady
  /\ ShowsIndex(fn_result.value)
  /\ \E fws \in LibraryCatalogs :
       \E k \in 1..Len(get_unique_frameworks(fws)) :
         LET selected_id == get_unique_frameworks(fws)[k].id
         IN  LibraryRun(IF Truthy(selected_id)
                          THEN navigate_to_framework(fn_result.value, selected_id)
                          ELSE fn_result.value,
                        "view", "None")

PrevPressed ==
  /\ LibraryReady
  /\ \E fws \in LibraryCatalogs :
       LET unique_frameworks == get_unique_frameworks(fws)
           current_idx == CurrentIdx(unique_frameworks,
                                     fn_result.value.library_framework_id)
       IN  /\ ShowsDetail(fn_result.value, fws)
           /\ current_idx > 1
           /\ LibraryRun(navigate_to_framework(fn_result.value,
                           unique_frameworks[current_idx - 1].id),
                         "prev", "None")

NextPressed ==
  /\ LibraryReady
  /\ \E fws \in LibraryCatalogs :
       LET unique_frameworks == get_unique_frameworks(fws)
           current_idx == CurrentIdx(unique_frameworks,
                                     fn_result.value.library_framework_id)
       IN  /\ ShowsDetail(fn_result.value, fws)
           /\ current_idx > 0
           /\ current_idx < Len(unique_frameworks)
           /\ LibraryRun(navigate_to_framework(fn_result.value,
                           unique_frameworks[current_idx + 1].id),
                         "next", "None")

\* "Back to Library": action = 'back', then navigate_to_index.
BackPressed ==
  /\ LibraryReady
  /\ \E fws \in LibraryCatalogs :
       /\ ShowsDetail(fn_result.value, fws)
       /\ LibraryRun(navigate_to_index(fn_result.value), "back", "back")

\* "Return to Library" under "Framework not found".
ReturnPressed ==
  /\ LibraryReady
  /\ \E fws \in LibraryCatalogs :
       /\ ShowsNotFound(fn_result.value, fws)
       /\ LibraryRun(navigate_to_index(fn_result.value), "return", "None")

\* "Ask about this framework in chat": the query is prefilled, the action is
\* 'chat'.
AskInChat ==
  /\ LibraryReady
  /\ \E fws \in LibraryCatalogs :
       /\ ShowsDetail(fn_result.value, fws)
       /\ LET k == CHOOSE k \in Positions(fws, fn_result.value.library_framework_id) :
                     \A m \in Positions(fws, fn_result.value.library_framework_id) :
                       k <= m
          IN  LibraryRun([fn_result.value EXCEPT
                            !.prefilled_query = clean_framework_name(fws[k].name)],
                         "ask", "chat")

LibraryNext ==
  \/ ViewPressed
  \/ PrevPressed
  \/ NextPressed
  \/ BackPressed
  \/ ReturnPressed
  \/ AskInChat

LibrarySpec == LibraryInit /\ [][LibraryNext]_vars

\* ================================================================ claims
Last(s) == s[Len(s)]
RequestFailed == pc = "input" /\ outcome = "error"
FullRouting == {"enhance", "classify", "embed", "search"}
SelectionPending == pre.stage = "framework_selection"

\* C1: in framework_selection, an input that resolves to an offered framework
\* makes process_query return the selection confirmation with exactly that
\* framework to display, without enhancing, classifying, embedding or
\* searching, and without raising.
C1_SelectionShortCircuit ==
  (SelectionPending /\ pre.chosen # None) =>
    /\ ~RequestFailed
    /\ pc = "respond" =>
         /\ response = "selection_confirmed"
         /\ frameworks = <<pre.chosen>>
         /\ ops = {}
         /\ intent = "none"

C1_Witness ==
  /\ pc = "respond"
  /\ SelectionPending
  /\ Len(pre.available) = 2
  /\ pre.chosen = pre.available[2]
  /\ frameworks = <<pre.chosen>>

\* C2: in framework_selection, an input that resolves to no offered framework
\* is routed normally: it is enhanced, classified, embedded and searched and a
\* pair is returned on an intent; process_query raises only where a provider
\* call does, never at the failed resolution.
C2_FailedSelectionFallsThrough ==
  (SelectionPending /\ pre.chosen = None) =>
    /\ pc = "respond" =>
         /\ ops = FullRouting
         /\ intent \in Intents
         /\ response # "selection_confirmed"
         /\ None \notin Range(frameworks)
    /\ RequestFailed => {"enhance", "classify", "embed"} \subseteq ops

C2_Witness ==
  /\ pc = "respond"
  /\ SelectionPending
  /\ pre.available # <<>>
  /\ pre.chosen = None
  /\ ops = FullRouting

\* C3: in diagnostic_active the input is the answers to the selected
\* framework's questions: the analysis is returned with nothing to display,
\* and no enhancement, classification, embedding or search happens, whether
\* the analysis succeeds or its provider call raises.
C3_AnswersNotRouted ==
  pre.stage = "diagnostic_active" =>
    /\ pc = "respond" =>
         /\ response = "analysis"
         /\ frameworks = <<>>
         /\ ops = {}
         /\ intent = "none"
    /\ RequestFailed => ops = {}

C3_Witness ==
  /\ pc = "respond"
  /\ pre.stage = "diagnostic_active"
  /\ pre.selected # None
  /\ response = "analysis"

\* C4: producing the analysis ends the diagnostic pass (the stage is no longer
\* diagnostic_active), and a query that arrives with the pass ended is routed
\* normally, not analysed as another bundle of answers.
C4_AnalysisEndsThePass ==
  /\ (pc = "respond" /\ response = "analysis") =>
       /\ pre.stage = "diagnostic_active"
       /\ current_stage = "diagnostic_analyzed"
  /\ pre.stage = "diagnostic_analyzed" =>
       /\ pc = "respond" => (ops = FullRouting /\ intent \in Intents)
       /\ RequestFailed => "embed" \in ops

C4_Witness ==
  /\ pc = "respond"
  /\ pre.stage = "diagnostic_analyzed"
  /\ pre.selected # None
  /\ ops = FullRouting

\* C5: a query dispatched on DIAGNOSTIC and one dispatched on UNKNOWN get the
\* same handler; in both cases available_frameworks is the list the handler
\* returned and the stage is framework_selection.
C5_DiagnosticAndUnknownOffer ==
  (pc = "respond" /\ intent \in {INTENT_DIAGNOSTIC, INTENT_UNKNOWN}) =>
    /\ response = "diagnostic"
    /\ available_frameworks = frameworks
    /\ current_stage = "framework_selection"

C5_Witness ==
  /\ pc = "respond"
  /\ intent = INTENT_UNKNOWN
  /\ Len(frameworks) = 2
  /\ pre.available # frameworks
  /\ available_frameworks = frameworks
  /\ pre.stage # "framework_selection"

\* C6: after Start Fresh, whatever the stage was, no framework is selected,
\* available_frameworks is empty and the stage is idle.
C6_ResetClearsTheOffer ==
  outcome = "reset" =>
    /\ selected_framework = None
    /\ available_frameworks = <<>>
    /\ current_stage = "idle"

\* C7: when a provider call fails for good during a request, the stage, the
\* selected framework and available_frameworks are as before the request and
\* the history ends with an error response of the assistant.
C7_FailureIsAnErrorTurn ==
  RequestFailed =>
    /\ current_stage = pre.stage
    /\ selected_framework = pre.selected
    /\ available_frameworks = pre.available
    /\ history # <<>>
    /\ Last(history).role = "assistant"
    /\ Last(history).error

\* C8: whenever the chat loop is ready for the next query, every user turn it
\* accepted has been followed by an assistant turn: the history does not end
\* with a user turn.
C8_EveryUserTurnAnswered ==
  (pc = "input" /\ history # <<>>) => Last(history).role = "assistant"

\* C9: a retried call makes at most max_retries attempts, makes no attempt
\* after a successful one, returns exactly when its last attempt succeeded,
\* and ends (returned or raised).
RetryShape ==
  /\ Len(call.log) <= call.max_retries
  /\ \A k \in 1..Len(call.log) :
       call.log[k] = "ok" => (k = Len(call.log) /\ call.status = "returned")
  /\ call.status = "returned" => (call.log # <<>> /\ Last(call.log) = "ok")

C9_BoundedRetry ==
  /\ []RetryShape
  /\ <>(call.status \in {"returned", "raised"})

C9_Witness ==
  /\ call.status = "returned"
  /\ call.max_retries = DefaultMaxRetries
  /\ Len(call.log) = DefaultMaxRetries

\* C10: a retried call that raises, raises the error of its last attempt,
\* whatever max_retries is.
C10_RaisesLastAttemptError ==
  call.status = "raised" =>
    /\ call.log # <<>>
    /\ call.raised = Last(call.log)

\* C11: in a retried call the k-th wait is the base delay doubled k-1 times
\* (1, 2, 4, ...); there is one wait after each failed attempt except the
\* last one allowed, so none after a success and none after the final
\* failure.
Min(a, b) == IF a <= b THEN a ELSE b
Failures(log) == Cardinality({k \in 1..Len(log) : log[k] # "ok"})

C11_BackoffBetweenAttempts ==
  call.status # "idle" =>
    /\ \A k \in 1..Len(call.delays) : call.delays[k] = BaseDelay * 2 ^ (k - 1)
    /\ call.max_retries >= 1 =>
         Len(call.delays) = Min(Failures(call.log), call.max_retries - 1)
    /\ call.max_retries = 0 => call.delays = <<>>
    /\ call.status \in {"returned", "raised"} /\ call.log # <<>> =>
         Len(call.delays) = Len(call.log) - 1

C11_Witness ==
  /\ call.status = "raised"
  /\ call.max_retries = 4
  /\ call.delays = <<1, 2, 4>>

\* C12: once a session holds a rating for a framework id, a later press of a
\* rating button for that id in that session is ignored: it changes neither
\* the log nor the session, the stored rating never changes, and the log never
\* holds two records of one (session, framework id) pair.
OneRecordPerPair ==
  \A i, j \in 1..Len(feedback_log.records) :
    (/\ i < j
     /\ feedback_log.records[i].session = feedback_log.records[j].session)
      => feedback_log.records[i].framework_id
           # feedback_log.records[j].framework_id

RatingKept ==
  \A s \in Sessions, f \in Frameworks :
    feedback[s][f] # None => feedback'[s][f] = feedback[s][f]

PressOnRatedIgnored ==
  \A s \in Sessions, f \in Frameworks :
    (/\ feedback[s][f] # None
     /\ fb_clock' # fb_clock
     /\ fb_last'.session = s
     /\ fb_last'.framework_id = f)
      => /\ fb_last'.ignored
         /\ UNCHANGED <<feedback_log, feedback, fb_pc, fb_local>>

C12_FeedbackImmutable ==
  /\ []OneRecordPerPair
  /\ [][RatingKept /\ PressOnRatedIgnored]_vars

C12_Witness ==
  /\ fb_last.ignored
  /\ feedback[fb_last.session][fb_last.framework_id] = 0 - fb_last.rating
  /\ \E i \in 1..Len(feedback_log.records) :
       /\ feedback_log.records[i].session = fb_last.session
       /\ feedback_log.records[i].framework_id = fb_last.framework_id

\* C13: when a log_feedback call has ended, either it logged - the file then
\* holds the records it held before, unchanged and in order, followed by the
\* one new record - or it failed with the warning, and the file is as it was
\* before the call.
ReadableAs(log) == IF log.state = "absent" THEN ValidLog(<<>>) ELSE log

C13_LogAppendOnly ==
  \A s \in Sessions :
    fb_pc[s] = "record" =>
      IF fb_local[s].result = "logged"
        THEN /\ fb_local[s].before.state # "corrupt"
             /\ feedback_log =
                  ValidLog(Append(fb_local[s].before.records, fb_local[s].fb))
        ELSE ReadableAs(feedback_log) = ReadableAs(fb_local[s].before)

\* C14: for DETAILS and SEQUENCING the first extracted name, when there is
\* one, is the target (looked up by exact name); with no extracted name the
\* top search result is; with neither, the clarifying question is returned
\* with nothing to display, and nothing is raised.
ExactName(name) == IF name # None THEN <<name>> ELSE <<>>
NamedHandler(i) == IF i = INTENT_DETAILS THEN "details" ELSE "sequencing"

C14_NamedTargetOrder ==
  (fn_args.fn = "process_query" /\ fn_result.called
     /\ fn_args.intent \in {INTENT_DETAILS, INTENT_SEQUENCING}) =>
    LET r == fn_result.value
        answered == ~r.raised /\ r.response = NamedHandler(fn_args.intent)
    IN  /\ fn_args.mentioned # <<>> =>
             /\ r.raised = (fn_args.generated = "raised")
             /\ answered => r.frameworks = ExactName(fn_args.mentioned[1])
             /\ ~r.raised => answered
        /\ (fn_args.mentioned = <<>> /\ fn_args.results # <<>>) =>
             /\ r.raised = (fn_args.generated = "raised")
             /\ answered => r.frameworks = <<fn_args.results[1]>>
             /\ ~r.raised => answered
        /\ (fn_args.mentioned = <<>> /\ fn_args.results = <<>>) =>
             /\ ~r.raised
             /\ r.response = "clarify"
             /\ r.frameworks = <<>>

C14_Witness ==
  /\ fn_args.fn = "process_query"
  /\ fn_result.called
  /\ fn_args.intent = INTENT_SEQUENCING
  /\ fn_args.mentioned = <<2>>
  /\ fn_args.results = <<1, 2>>
  /\ fn_result.value.frameworks = <<2>>

\* C15: for COMPARISON a comparison is produced exactly when there are two
\* extracted names, or one extracted name and a top search result; otherwise
\* the clarifying prompt is returned with nothing to display and nothing is
\* raised, even when the provider is failing.
TwoTargets(mentioned, results) ==
  \/ Len(mentioned) >= 2
  \/ Len(mentioned) = 1 /\ results # <<>>

C15_ComparisonNeedsTwoTargets ==
  (fn_args.fn = "process_query" /\ fn_result.called
     /\ fn_args.intent = INTENT_COMPARISON) =>
    LET r == fn_result.value
    IN  IF TwoTargets(fn_args.mentioned, fn_args.results)
          THEN /\ r.raised = (fn_args.generated = "raised")
               /\ ~r.raised => r.response = "comparison"
          ELSE /\ ~r.raised
               /\ r.response = "clarify"
               /\ r.frameworks = <<>>

C15_Witness ==
  /\ fn_args.fn = "process_query"
  /\ fn_result.called
  /\ fn_args.intent = INTENT_COMPARISON
  /\ Len(fn_args.mentioned) = 1
  /\ fn_args.results # <<>>
  /\ fn_result.value.response = "comparison"

EnhanceCalled == fn_args.fn = "enhance_query_with_context" /\ fn_result.called

\* C16: a query is rewritten only if it is a follow-up in the stated sense:
\* it contains a continuation phrase, a negation word ("nah", "no") counting
\* only as a word of its own, or it has fewer than 6 words and fewer than 30
\* characters and no specific-intent marker. Every other query is returned
\* unchanged, whatever the history.
NegationWords == {<<"n", "a", "h">>, <<"n", "o">>}
StandsAlone(s, w) == Contains(Blank \o s \o Blank, Blank \o w \o Blank)

StatedFollowup(query) ==
  LET q == strip(lower(query))
  IN  \/ \E n \in 1..Len(followup_indicators) :
           /\ followup_indicators[n] \notin NegationWords
           /\ Contains(q, followup_indicators[n])
      \/ \E w \in NegationWords : StandsAlone(q, w)
      \/ /\ WordCount(query) < 6
         /\ Len(query) < 30
         /\ ~ContainsAny(q, specific_intent_keywords)

C16_RewrittenOnlyIfFollowup ==
  EnhanceCalled =>
    (fn_result.value # fn_args.query => StatedFollowup(fn_args.query))

\* C17 (as stated): when enhancement is triggered and some user turn is
\* longer than 30 characters and its text is not the current query's text,
\* the result is the most recent such turn's text, the marker that
\* alternatives are wanted, and the current query.
Spliced(content, query) ==
  content \o AlternativesOpen \o query \o AlternativesClose

LongUserTurns(turns) ==
  {k \in 1..Len(turns) : turns[k].role = "user" /\ Len(turns[k].content) > 30}

MostRecent(ks) == CHOOSE k \in ks : \A m \in ks : m <= k

C17_SplicedFromDifferentText ==
  EnhanceCalled =>
    LET other == {k \in LongUserTurns(fn_args.history) :
                    fn_args.history[k].content # fn_args.query}
    IN  (Triggered(fn_args.query) /\ other # {}) =>
          fn_result.value =
            Spliced(fn_args.history[MostRecent(other)].content, fn_args.query)

\* C17 (amended): when enhancement is triggered and some user turn is longer
\* than 30 characters and differs from the current query once both are
\* lower-cased and stripped, the result is the most recent such turn's text
\* verbatim, then the marker that alternatives are wanted with the current
\* query.
C17_SplicedFromMostRecentTurn ==
  EnhanceCalled =>
    LET other == {k \in LongUserTurns(fn_args.history) :
                    strip(lower(fn_args.history[k].content))
                      # strip(lower(fn_args.query))}
    IN  (Triggered(fn_args.query) /\ other # {}) =>
          /\ fn_result.value =
               Spliced(fn_args.history[MostRecent(other)].content,
                       fn_args.query)
          /\ Contains(fn_result.value, fn_args.history[MostRecent(other)].content)
          /\ Contains(fn_result.value, fn_args.query)
          /\ Contains(fn_result.value, <<"u", "s", "e", "r", " ", "w", "a", "n", "t", "s", " ", "a", "l", "t", "e", "r", "n", "a", "t", "i", "v", "e", "s">>)

C17_Witness ==
  /\ EnhanceCalled
  /\ Len(fn_args.history) = 2
  /\ fn_args.history[1].content = UserTextA
  /\ fn_args.history[2].content = UserTextB
  /\ fn_args.query = <<"w", "h", "a", "t", " ", "e", "l", "s", "e">>
  /\ fn_result.value = Spliced(UserTextB, fn_args.query)

\* C18: when enhancement is triggered but no user turn is both longer than 30
\* characters and different from the current query - as when the only user
\* turn is the current query itself - the query is returned unchanged.
C18_UnchangedWithoutContext ==
  EnhanceCalled =>
    ((/\ Triggered(fn_args.query)
      /\ \A k \in LongUserTurns(fn_args.history) :
           fn_args.history[k].content = fn_args.query)
       => fn_result.value = fn_args.query)

C18_Witness ==
  /\ EnhanceCalled
  /\ Triggered(fn_args.query)
  /\ Len(fn_args.query) > 30
  /\ Len(fn_args.history) = 2
  /\ fn_args.history[1].role = "assistant"
  /\ fn_args.history[2] = [role |-> "user", content |-> fn_args.query]
  /\ fn_result.value = fn_args.query

\* C19: canonicalizing a canonical name again gives the same name, for the
\* display name of the chat cards and for the cleaned name of the listings.
C19_CanonicalizationIdempotent ==
  (fn_args.fn = "format_framework_display_name" /\ fn_result.called
     /\ fn_result.value.again) =>
    /\ fn_result.value.display_again = fn_result.value.display
    /\ fn_result.value.cleaned_again = fn_result.value.cleaned

\* C20: two records whose names are one stem with different trailing numbers
\* (or the stem itself and the stem with a number) have the same cleaned
\* name, and each listing holds exactly one entry for them, the first of them
\* in the input: get_unique_frameworks and group_frameworks_alphabetically
\* always, fuzzy_search_frameworks whenever the query matches that name and
\* the result is not cut at max_results (never more than one, never a later
\* record).
SameButForNumber(a, b) ==
  \E k \in 1..Len(a) :
    LET stem == SubSeq(a, 1, k)
    IN  \E t1, t2 \in NumberTokens \cup {<<>>} :
          /\ a = stem \o t1
          /\ b = stem \o t2
          /\ (t1 = <<>> \/ t2 = <<>>) => ~IsDigit(stem[Len(stem)])

\* The records of the catalog that are record i but for the number.
Lookalikes(fws, i) ==
  {k \in 1..Len(fws) : SameButForNumber(fws[i].name, fws[k].name)}

FirstOf(ks) == CHOOSE k \in ks : \A m \in ks : k <= m

\* The entries of a listing, whatever its shape.
Entries(listed) ==
  IF fn_args.fn = "group_frameworks_alphabetically"
    THEN UNION {{listed[l][k] : k \in 1..Len(listed[l])} : l \in DOMAIN listed}
    ELSE {listed[k] : k \in 1..Len(listed)}

\* The positions of a sequence listing, for counting entries.
EntryCount(listed, ids) ==
  IF fn_args.fn = "group_frameworks_alphabetically"
    THEN Cardinality({<<l, k>> \in (DOMAIN listed) \X (1..(MaxCatalog + 1)) :
                        k <= Len(listed[l]) /\ listed[l][k].id \in ids})
    ELSE Cardinality({k \in 1..Len(listed) : listed[k].id \in ids})

QueryMatches(query, name) ==
  /\ Len(query) >= 2
  /\ Contains(lower(name), strip(lower(query)))

IsPlaceholder(name) == name = GenericName \/ IsNumberedGeneric(name)

LabelFromUseCase(fw) ==
  Take(Before(Before(fw.use_case, "."), ","), PhraseMax) \o Ellipsis
LabelFromDomain(fw) == strip(Before(fw.business_domains, ",")) \o FrameworkSuffix
LabelFromType(fw) == fw.type \o Blank \o FrameworkNumber \o IdText(fw.id)
LabelFromId(fw) == FrameworkNumber \o IdText(fw.id)

DerivedLabels(fw) ==
  {LabelFromUseCase(fw) : u \in {fw.use_case} \ {<<>>}}
    \cup {LabelFromDomain(fw) : d \in {fw.business_domains} \ {<<>>}}
    \cup {LabelFromType(fw) : t \in {fw.type} \ {<<>>}}
    \cup {LabelFromId(fw)}

C21_PlaceholderGetsDerivedLabel ==
  (/\ fn_args.fn = "format_framework_display_name"
   /\ fn_result.called
   /\ IsPlaceholder(fn_args.framework.name)) =>
    /\ fn_result.value.display \in DerivedLabels(fn_args.framework)
    /\ fn_result.value.display # GenericName

\* C22: the chat card's display name and the prompt's display name of a
\* record are the same text, and for a record whose name is not generic both
\* are the cleaned name of the listings.
C22_OneCanonicalName ==
  (fn_args.fn = "format_framework_display_name" /\ fn_result.called) =>
    /\ fn_result.value.display = fn_result.value.prompt
    /\ ~IsPlaceholder(fn_args.framework.name) =>
         /\ fn_result.value.display = fn_result.value.cleaned
         /\ fn_result.value.prompt = fn_result.value.cleaned

\* C23: the analysis prompt built in diagnostic_active holds the name, the
\* diagnostic questions, the red flags, the levers and the related frameworks
\* stored for the selected framework (or the template's default where the
\* framework has none), and nothing stored for another framework.
OwnFields(f) ==
  {FieldText(f, field) :
     field \in {"name", "question 1", "question 2", "red_flag_indicators",
                "levers", "related_frameworks"}}

Defaults == {<<"Unknown">>, <<"None specified">>, <<"None">>}

SlotTexts(prompt) ==
  {prompt.framework_name, prompt.red_flags, prompt.levers,
   prompt.related_frameworks}
    \cup {prompt.diagnostic_questions[k][2] :
            k \in 1..Len(prompt.diagnostic_questions)}

C23_AnalysisFromSelectedOnly ==
  (fn_args.fn = "handle_diagnostic_analysis" /\ fn_result.called) =>
    LET prompt == fn_result.value.prompt
        own == framework_data(fn_args.selected)
    IN  /\ prompt.framework_name = own.name
        /\ prompt.red_flags = own.red_flag_indicators
        /\ SlotTexts(prompt) \subseteq OwnFields(fn_args.selected) \cup Defaults
        /\ \A g \in Frameworks \ {fn_args.selected} :
             SlotTexts(prompt) \cap OwnFields(g) = {}
        /\ \A k \in 1..Len(own.diagnostic_questions) :
             own.diagnostic_questions[k] # BlankPiece =>
               own.diagnostic_questions[k] \in SlotTexts(prompt)
        /\ own.levers # Missing => prompt.levers = own.levers
        /\ own.related_frameworks # Missing =>
             prompt.related_frameworks = own.related_frameworks
        /\ fn_result.value.frameworks = <<>>

C23_Witness ==
  /\ fn_args.fn = "handle_diagnostic_analysis"
  /\ fn_result.called
  /\ fn_args.selected = 2
  /\ fn_args.available = <<1, 2>>
  /\ fn_result.value.response = "analysis"
  /\ fn_result.value.prompt.framework_name = FieldText(2, "name")
  /\ fn_result.value.prompt.levers = <<"None specified">>

\* C24: a reply resolves against the offered list exactly when it is a bare
\* integer n with 1 <= n <= the length of the list (to the n-th offered
\* framework) or, not being an integer, is contained case-insensitively in
\* the name of an offered framework (to such a framework); every other reply
\* resolves to nothing, raises nothing and leaves the stage and the selected
\* framework as they were.
ReplyText == strip(fn_args.text)

ByNumber ==
  {fn_args.available[n] : n \in {k \in 1..Len(fn_args.available) :
                                   IsBareInteger(ReplyText)
                                     /\ IntValue(ReplyText) = k}}

ByName ==
  {f \in Range(fn_args.available) :
     /\ ~IsBareInteger(ReplyText)
     /\ Contains(lower(catalog_name(f)), lower(ReplyText))}

C24_SelectionShapes ==
  (fn_args.fn = "handle_framework_selection" /\ fn_result.called) =>
    LET chosen == fn_result.value.chosen
        after == fn_result.value.after
    IN  /\ ByNumber # {} => {chosen} = ByNumber
        /\ ByName # {} => chosen \in ByName
        /\ chosen # None =>
             /\ chosen \in ByNumber \cup ByName
             /\ ~after.raised
             /\ after.response = "selection_confirmed"
             /\ after.frameworks = <<chosen>>
             /\ after.selected = chosen
             /\ after.stage = "diagnostic_active"
        /\ ByNumber \cup ByName = {} =>
             /\ chosen = None
             /\ after.response # "selection_confirmed"
             /\ after.selected = fn_args.selected
             /\ after.stage = "framework_selection"
             /\ after.raised => fn_args.generated = "raised"

C24_Witness ==
  /\ fn_args.fn = "handle_framework_selection"
  /\ fn_result.called
  /\ fn_args.available = <<1, 2>>
  /\ fn_args.text = <<"t", "e", "l", "l", " ", "m", "e", " ", "a", "b", "o", "u", "t", " ", "S", "P", "I", "N">>
  /\ fn_args.selected = None
  /\ fn_result.value.chosen = None
  /\ fn_result.value.after.ops = FullRouting
  /\ fn_result.value.after.selected = None

\* C25: search returns the best top_k (or all, if fewer) of the frameworks
\* eligible under the active filters and no other, by descending similarity
\* and, among equal similarities, ascending id; the same search repeated
\* returns the same list; with no eligible framework the list is empty.
Passes(f) ==
  /\ fn_args.domains_filter = {}
       \/ business_domains(f) \cap fn_args.domains_filter # {}
  /\ fn_args.difficulty_filter \in {All, difficulty_level(f)}
  /\ fn_args.type_filter \in {All, framework_type(f)}

Alternates(turns) ==
  \A k \in 1..Len(turns) :
    turns[k].role = IF k % 2 = 1 THEN "user" ELSE "assistant"

C26_HistoryAppendOnly ==
  (fn_args.fn = "main" /\ fn_result.value.passes > 0) =>
    LET sess == fn_result.value
        n == Len(sess.last.before)
    IN  /\ Len(sess.history) = n + 2
        /\ SubSeq(sess.history, 1, n) = sess.last.before
        /\ sess.history[n + 1].role = "user"
        /\ sess.history[n + 1].content = sess.last.user_query
        /\ sess.history[n + 2].role = "assistant"
        /\ Alternates(sess.history)

\* C29: whenever a selection is pending (the stage is framework_selection and
\* the chat loop waits for a reply), available_frameworks, against which the
\* reply is resolved, is the list shown with the most recent assistant
\* response.
C29_OfferedListIsShownList ==
  (pc = "input" /\ current_stage = "framework_selection") =>
    available_frameworks = show_frameworks

\* C30: the intent in the metadata of an assistant turn is the intent
\* process_query dispatched on to produce that turn: the classification of
\* the query as process_query classified it, rewritten or not.
C30_MetadataIntentIsDispatched ==
  (/\ fn_args.fn = "main"
   /\ fn_result.value.passes > 0
   /\ ~fn_result.value.last.raised) =>
    Last(fn_result.value.history).metadata.intent =
      fn_result.value.last.dispatched

\* C27: in the Framework Library, after any sequence of View, Prev, Next,
\* Back and not-found returns, library_view is 'detail' exactly when
\* library_framework_id is set (is not None).
C27_DetailIffIdSet ==
  fn_args.fn = "render_framework_library" =>
    (fn_result.value.library_view = "detail"
       <=> fn_result.value.library_framework_id # NoId)

C27_Witness ==
  /\ fn_args.fn = "render_framework_library"
  /\ fn_result.value.runs = 3
  /\ fn_result.value.pressed = "return"
  /\ fn_result.value.library_view = "index"
  /\ fn_result.value.library_framework_id = NoId

\* C28: once the log_feedback calls of two sessions that overlapped are
\* over, the log holds the record of each of them.
Logged(s, f) ==
  \E k \in 1..Len(feedback_log.records) :
    /\ feedback_log.records[k].session = s
    /\ feedback_log.records[k].framework_id = f

C28_NoLostRecord ==
  (\A s \in Sessions : fb_pc[s] = "idle") =>
    \A s \in Sessions, f \in Frameworks :
      get_feedback_for_framework(s, f) # None => Logged(s, f)

====
